---- MODULE Spec2Model ----
(***************************************************************************)
(* Model of the feed harvesting session of TrendThread:                    *)
(*   src/src/fetchers/x_scraper.py  (run_full_x_scraper and its helpers),   *)
(*   src/main.py                    (the pipeline around it).               *)
(* Text is a sequence of one-character strings, so that str.strip(), the   *)
(* engagement pattern and the joining of media links are computed and not  *)
(* assumed.                                                                *)
(***************************************************************************)
EXTENDS Integers, Sequences, FiniteSets, TLC

\* ------------------------------------------------------------------ bounds
\* largest max_tweets explored
MaxTarget == 2
\* largest number of articles mounted in the page at one extraction pass
MaxDom == 2

\* ------------------------------------------------------------------ constants of the code
\* _scroll_feed(driver, scrollable, amount=700)
ScrollAmount == 700
\* time.sleep(3) after the scroll
SettleDelay == 3

\* ------------------------------------------------------------------ inputs
Whitespace == {" ", "\n"}

\* raw contents of a tweetText element: empty, blank, padded and plain bodies
RawTexts ==
  { <<>>, <<" ", "\n">>, <<"h">>, <<"\n", "h", " ">>, <<"w">>, <<"h", " ", "w">> }

\* what a lookup inside an article does: the element is found and carries the
\* value v, it is found without the attribute, it is absent, or the lookup raises
Found(v) == [st |-> "ok", v |-> v]

NoAttr == [st |-> "noattr", v |-> <<>>]

Absent == [st |-> "absent", v |-> <<>>]

Raises == [st |-> "raises", v |-> <<>>]

\* the photo and video elements of an article: the src / poster attributes
\* found, and whether each of the two find_elements calls raises
Media(ist, imgs, vst, posters) ==
  [ist |-> ist, imgs |-> imgs, vst |-> vst, posters |-> posters]

NoMedia == Media("ok", <<>>, "ok", <<>>)

\* last path segment of the profile link of the two authors of the feed
Handles == {<<"A">>, <<"B">>}

\* a User-Name block whose only link is the profile link of the handle h
UserName(h) == Found(<<(<<"/">> \o h)>>)

Accounts == {<<"@", "A">>, <<"@", "B">>}

Permalink == <<"u">>

LikeLabel == <<"5", " ", "L">>

\* One mounted article: el says what the lookup of its tweetText element does
\* ("ok": found, "absent": no such element, "stale": the lookup raises); the
\* other fields say what the lookups of the helper functions find.
Article(el, text, user) ==
  [el |-> el, text |-> text, user |-> user, time |-> Found(Permalink),
   media |-> NoMedia, like |-> Found(LikeLabel), retweet |-> Absent]

Items ==
  { Article("ok", t, UserName(h)) : t \in RawTexts, h \in Handles }
    \cup { Article("absent", <<>>, UserName(h)) : h \in Handles }
    \cup { Article("stale", <<>>, UserName(<<"A">>)) }

Doms == UNION { [1..n -> Items] : n \in 0..MaxDom }

Targets == 1..MaxTarget

\* viewport heights (clientHeight) the scroll target can have
Heights == {600, 1000}

\* os.path.join(out_dir, filename)
FilePath == "data/raw/x_tweets.xlsx"

\* variant: the columns in alphabetical order
cols_sorted == <<"account", "likes", "media_links", "retweets", "text", "tweet_url">>

\* cols of the finally block
cols == <<"account", "tweet_url", "text", "media_links", "likes", "retweets">>

\* df = pd.DataFrame(rows_list)[cols]: one tuple of cells per record
Table(rows) ==
  [i \in 1..Len(rows) |-> [c \in 1..Len(cols) |-> rows[i][cols[c]]]]

\* the file at filepath: absent, or holding the table that was written
NoFile == [written |-> FALSE, path |-> "", columns |-> <<>>, table |-> <<>>]

File(rows) ==
  [written |-> TRUE, path |-> FilePath, columns |-> cols, table |-> Table(rows)]

\* ------------------------------------------------------------------ str.strip
RECURSIVE lstrip(_)
lstrip(s) ==
  IF s = <<>> THEN s
  ELSE IF Head(s) \in Whitespace THEN lstrip(Tail(s)) ELSE s

RECURSIVE rstrip(_)
rstrip(s) ==
  IF s = <<>> THEN s
  ELSE IF s[Len(s)] \in Whitespace THEN rstrip(SubSeq(s, 1, Len(s) - 1)) ELSE s

strip(s) == rstrip(lstrip(s))

\* ------------------------------------------------------------------ scrape_visible_tweets
\* variant: the text is taken without strip()
ItemTextNoStrip(tweet) == IF tweet.el = "ok" THEN tweet.text ELSE <<>>

\* text = (text_el[0].text if text_el else "").strip()
ItemText(tweet) == strip(IF tweet.el = "ok" THEN tweet.text ELSE <<>>)

\* variant: the skip test without the seen_texts membership
SkipItemNoDedup(text, seen_texts) == text = <<>>

\* if not text or text in seen_texts: continue
SkipItem(text, seen_texts) == text = <<>> \/ text \in seen_texts

\* ------------------------------------------------------------------ field helpers
\* Python's None: a value that is no text
None == <<"None">>

\* the attribute lookup of an element that went stale raises
Stale == <<"stale">>

ReservedHandles ==
  { <<"c", "o", "m">>, <<"x">>, <<"i">>, <<"i", "n", "t", "e", "n", "t">> }

StatusPart == <<"/", "s", "t", "a", "t", "u", "s", "/">>

\* sub in s
Contains(s, sub) ==
  \E i \in 1..(Len(s) - Len(sub) + 1) : SubSeq(s, i, i + Len(sub) - 1) = sub

\* s.rstrip("/")
RECURSIVE rstrip_slash(_)
rstrip_slash(s) ==
  IF s # <<>> /\ s[Len(s)] = "/" THEN rstrip_slash(SubSeq(s, 1, Len(s) - 1))
  ELSE s

\* s.split("/")[-1]
LastPart(s) ==
  LET slashes == { i \in 1..Len(s) : s[i] = "/" }
  IN IF slashes = {} THEN s
     ELSE SubSeq(s, (CHOOSE i \in slashes : \A j \in slashes : j <= i) + 1, Len(s))

\* c.lower(), on the letters of the hrefs of the feed
LowerChar(c) ==
  CASE c = "A" -> "a"
    [] c = "B" -> "b"
    [] c = "I" -> "i"
    [] c = "X" -> "x"
    [] OTHER -> c

lower(s) == [i \in 1..Len(s) |-> LowerChar(s[i])]

\* a.get_attribute("href") or ""
HrefOf(a) == IF a = None THEN <<>> ELSE a

\* variant: links to a status are not skipped
RECURSIVE FirstHandleAnyLink(_)
FirstHandleAnyLink(links) ==
  IF links = <<>> \/ Head(links) = Stale THEN <<>>
  ELSE LET href == HrefOf(Head(links))
           handle == LastPart(rstrip_slash(href))
       IN IF handle # <<>> /\ lower(handle) \notin ReservedHandles
             THEN <<"@">> \o handle
             ELSE FirstHandleAnyLink(Tail(links))

\* the loop over the links of the User-Name block; a link whose attribute
\* lookup raises sends the function to its except clause
RECURSIVE FirstHandle(_)
FirstHandle(links) ==
  IF links = <<>> \/ Head(links) = Stale THEN <<>>
  ELSE LET href == HrefOf(Head(links))
           handle == LastPart(rstrip_slash(href))
       IN IF Contains(href, StatusPart) THEN FirstHandle(Tail(links))
          ELSE IF handle # <<>> /\ lower(handle) \notin ReservedHandles
               THEN <<"@">> \o handle
               ELSE FirstHandle(Tail(links))

\* _get_tweet_author: "@" + handle of the first qualifying link of the
\* User-Name block, "" when the block is absent, no link qualifies, or a
\* lookup raises
get_tweet_author(tweet) ==
  IF tweet.user.st = "ok" THEN FirstHandle(tweet.user.v) ELSE <<>>

\* _get_tweet_link: the href of the parent of <time>; get_attribute gives None
\* when the attribute is missing, the bare except gives ""
get_tweet_link(tweet) ==
  IF tweet.time.st = "ok" THEN tweet.time.v
  ELSE IF tweet.time.st = "noattr" THEN None
  ELSE <<>>

PosterPrefix == <<"P", "o", "s", "t", "e", "r", ":", " ">>

Separator == <<" ", "|", " ">>

TextOnly == <<"t", "e", "x", "t", "-", "o", "n", "l", "y">>

\* the attributes read before the first lookup that raises
RECURSIVE UntilStale(_)
UntilStale(s) ==
  IF s = <<>> \/ Head(s) = Stale THEN <<>>
  ELSE <<Head(s)>> \o UntilStale(Tail(s))

\* some attribute lookup of the loop raises
Raised(s) == \E i \in 1..Len(s) : s[i] = Stale

\* the attributes that are truthy (neither None nor ""), in order
RECURSIVE Truthy(_)
Truthy(s) ==
  IF s = <<>> THEN <<>>
  ELSE IF Head(s) = <<>> \/ Head(s) = None THEN Truthy(Tail(s))
       ELSE <<Head(s)>> \o Truthy(Tail(s))

\* " | ".join(links)
RECURSIVE Join(_)
Join(links) ==
  IF Len(links) = 1 THEN links[1]
  ELSE links[1] \o Separator \o Join(Tail(links))

\* variant: the posters are collected before the images
MediaLinksPostersFirst(m) ==
  IF m.ist # "ok" THEN <<>>
  ELSE LET srcs == Truthy(UntilStale(m.imgs))
           posters == Truthy(UntilStale(m.posters))
       IN IF Raised(m.imgs) \/ m.vst # "ok" THEN srcs
          ELSE [i \in 1..Len(posters) |-> PosterPrefix \o posters[i]] \o srcs

\* links collected before the except clause is reached
MediaLinks(m) ==
  IF m.ist # "ok" THEN <<>>
  ELSE LET srcs == Truthy(UntilStale(m.imgs))
           posters == Truthy(UntilStale(m.posters))
       IN IF Raised(m.imgs) \/ m.vst # "ok" THEN srcs
          ELSE srcs \o [i \in 1..Len(posters) |-> PosterPrefix \o posters[i]]

\* variant: no links gives the empty string
get_tweet_media_links_empty(tweet) ==
  LET links == MediaLinks(tweet.media)
  IN IF links # <<>> THEN Join(links) ELSE <<>>

\* return " | ".join(links) if links else "text-only"
get_tweet_media_links(tweet) ==
  LET links == MediaLinks(tweet.media)
  IN IF links # <<>> THEN Join(links) ELSE TextOnly

NumChars == {"0", "1", "2", "3", "4", "5", "6", "7", "8", "9", ",", "."}

Suffixes == {"K", "M", "B"}

\* re.search(r"([\d,\.]+[KMB]?)", aria): the leftmost longest run of digits,
\* commas and dots with one optional suffix letter; "" when there is none
EngagementMatch(aria) ==
  LET starts == { i \in 1..Len(aria) : aria[i] \in NumChars }
  IN IF starts = {} THEN <<>>
     ELSE LET a == CHOOSE i \in starts : \A j \in starts : i <= j
              b == CHOOSE j \in a..Len(aria) :
                     /\ \A k \in a..j : aria[k] \in NumChars
                     /\ (j = Len(aria) \/ aria[j + 1] \notin NumChars)
              e == IF b < Len(aria) /\ aria[b + 1] \in Suffixes THEN b + 1 ELSE b
          IN SubSeq(aria, a, e)

\* _get_tweet_engagement(tweet, kind): kind selects the element
get_tweet_engagement(tweet, kind) ==
  LET el == IF kind = "like" THEN tweet.like ELSE tweet.retweet
  IN IF el.st \in {"ok", "noattr"} THEN EngagementMatch(el.v) ELSE <<>>

\* the dictionary appended to new_tweets
MakeRow(tweet, text) ==
  [account     |-> get_tweet_author(tweet),
   tweet_url   |-> get_tweet_link(tweet),
   text        |-> text,
   media_links |-> get_tweet_media_links(tweet),
   likes       |-> get_tweet_engagement(tweet, "like"),
   retweets    |-> get_tweet_engagement(tweet, "retweet")]

\* variant: the item loop without seen_texts.add(text)
RECURSIVE ScrapeFromNoAdd(_, _, _, _)
ScrapeFromNoAdd(tweets, i, seen_texts, new_tweets) ==
  IF i > Len(tweets)
  THEN [new_tweets |-> new_tweets, seen_texts |-> seen_texts]
  ELSE LET tweet == tweets[i] IN
       IF tweet.el = "stale"
       THEN ScrapeFromNoAdd(tweets, i + 1, seen_texts, new_tweets)
       ELSE LET text == ItemText(tweet) IN
            IF SkipItem(text, seen_texts)
            THEN ScrapeFromNoAdd(tweets, i + 1, seen_texts, new_tweets)
            ELSE ScrapeFromNoAdd(tweets, i + 1, seen_texts,
                                 Append(new_tweets, MakeRow(tweet, text)))

RECURSIVE ScrapeFrom(_, _, _, _)
ScrapeFrom(tweets, i, seen_texts, new_tweets) ==
  IF i > Len(tweets)
  THEN [new_tweets |-> new_tweets, seen_texts |-> seen_texts]
  ELSE LET tweet == tweets[i] IN
       IF tweet.el = "stale"
       THEN ScrapeFrom(tweets, i + 1, seen_texts, new_tweets)
       ELSE LET text == ItemText(tweet) IN
            IF SkipItem(text, seen_texts)
            THEN ScrapeFrom(tweets, i + 1, seen_texts, new_tweets)
            ELSE ScrapeFrom(tweets, i + 1, seen_texts \cup {text},
                            Append(new_tweets, MakeRow(tweet, text)))

scrape_visible_tweets(tweets, seen_texts) == ScrapeFrom(tweets, 1, seen_texts, <<>>)

\* ------------------------------------------------------------------ admission
\* for item in new_data: if len(rows_list) < max_tweets: rows_list.append(item)
RECURSIVE AdmitFrom(_, _, _, _)
AdmitFrom(rows, new_data_, i, target) ==
  IF i > Len(new_data_) THEN rows
  ELSE IF Len(rows) < target
       THEN AdmitFrom(Append(rows, new_data_[i]), new_data_, i + 1, target)
       ELSE AdmitFrom(rows, new_data_, i + 1, target)

\* variant: the admission loop inserting at the front (rows_list.insert(0, item))
RECURSIVE AdmitFrontFrom(_, _, _, _)
AdmitFrontFrom(rows, new_data_, i, target) ==
  IF i > Len(new_data_) THEN rows
  ELSE IF Len(rows) < target
       THEN AdmitFrontFrom(<<new_data_[i]>> \o rows, new_data_, i + 1, target)
       ELSE AdmitFrontFrom(rows, new_data_, i + 1, target)

AdmitFront(rows, new_data_, target) == AdmitFrontFrom(rows, new_data_, 1, target)

\* variant: when the batch exceeds the capacity its last items are admitted
AdmitTail(rows, new_data_, target) ==
  LET room == target - Len(rows)
  IN IF Len(new_data_) <= room THEN rows \o new_data_
     ELSE rows \o SubSeq(new_data_, Len(new_data_) - room + 1, Len(new_data_))

\* variant: the admission loop without its capacity test
AdmitNoCap(rows, new_data_, target) == rows \o new_data_

Admit(rows, new_data_, target) == AdmitFrom(rows, new_data_, 1, target)

\* variant: the iteration has no target check after the admission
TargetReachedNever(rows, target) == FALSE

\* if len(rows_list) >= max_tweets: break
TargetReached(rows, target) == Len(rows) >= target

\* variant: the flush guard without the pandas test
FlushGuardRowsOnly(rows, pandas) == rows # <<>>

\* variant: the flush guard without the emptiness test
FlushGuardPandasOnly(rows, pandas) == pandas

\* if rows_list and pd:
FlushGuard(rows, pandas) == rows # <<>> /\ pandas

\* ------------------------------------------------------------------ scrolling
\* _get_scrollable_feed: the scroll container of the first mounted article,
\* or None when no article is mounted (no exception is raised)
get_scrollable_feed(mounted) == IF mounted # <<>> THEN "element" ELSE "None"

\* no scroll command
NoScroll == [on |-> "none", mode |-> "none", amount |-> 0, clientHeight |-> 0]

\* a step that neither scrolls nor sleeps
NoEv == [scroll |-> NoScroll, sleep |-> 0]

\* the argument amount: <<>> for None, <<n>> for the number n
NoAmount == <<>>

\* _scroll_feed was not called
NoCall == [scrollable |-> "unset", amount |-> NoAmount]

\* variant: the advance is 0.7 of the viewport height of the target
\* (step = int(viewport * 0.7) of the legacy loop)
scroll_feed_fraction(target, amount, height) ==
  [on           |-> IF target = "element" THEN "element" ELSE "window",
   mode         |-> "by",
   amount       |-> (7 * height) \div 10,
   clientHeight |-> height]

\* variant: `if amount:` in place of `if amount is not None:`
scroll_feed_truthy(target, amount, height) ==
  [on           |-> IF target = "element" THEN "element" ELSE "window",
   mode         |-> IF amount # NoAmount /\ amount # <<0>> THEN "by" ELSE "bottom",
   amount       |-> IF amount # NoAmount /\ amount # <<0>> THEN amount[1] ELSE 0,
   clientHeight |-> height]

\* _scroll_feed: the one script it hands to the driver.  With a truthy
\* scrollable the element is scrolled, otherwise the window; with an amount
\* the position advances by it (scrollTop += amount, window.scrollBy), with
\* None it jumps to the bottom (scrollTop = scrollHeight, window.scrollTo).
\* clientHeight is the viewport height of the target at that moment; the code
\* does not read it.
scroll_feed(target, amount, height) ==
  [on           |-> IF target = "element" THEN "element" ELSE "window",
   mode         |-> IF amount # NoAmount THEN "by" ELSE "bottom",
   amount       |-> IF amount # NoAmount THEN amount[1] ELSE 0,
   clientHeight |-> height]

\* ------------------------------------------------------------------ Gemini analysis, idle
AcIdle == [pc |-> "idle"]

AtIdle == [pc |-> "idle"]

\* ------------------------------------------------------------------ state
VARIABLES
  pc,          \* position in run_full_x_scraper
  max_tweets,  \* the argument
  pd,          \* TRUE iff `import pandas` succeeded
  alive,       \* the browser window is open
  tweets,      \* articles returned by the last find_elements, until the next step
  seen,        \* seen texts of the session
  rows_list,   \* admitted records
  new_data,    \* result of the last scrape_visible_tweets
  scrollable,  \* "unset", "element" or "None"
  stop,        \* what ended the run: "none", "target", "closed", "setup",
               \* "mkdir", "load", "news", "locate"
  to_excel,    \* sequence of the arguments of the df.to_excel calls
  sink,        \* the file at filepath: NoFile or File(rows)
  quits,       \* number of driver.quit calls
  result,      \* "running", "returned" or "raised"
  ev,          \* the scroll command and sleep of the last step, NoEv otherwise
  scrolled,    \* TRUE iff a scroll command was issued in the session
  resolves,    \* number of calls of _get_scrollable_feed
  quit_error,  \* TRUE iff driver.quit raised (and was swallowed)
  retval,      \* the components of the returned value, <<>> before the return
  unscrolled,  \* completed passes below the target minus calls of _scroll_feed
  mpc,         \* position in main.main, "none" when the scraper runs alone
  exit_code,   \* exit status of the process, read when mpc = "exit"
  failed,      \* the stage of main.main that raised, "none" otherwise
  call,        \* the arguments of the last call of _scroll_feed
  ac,          \* the run of analyze_chunk
  at           \* the run of analyze_trends_and_generate_prompts

mainvars == <<mpc, exit_code, failed>>

geminivars == <<ac, at>>

vars == <<pc, max_tweets, pd, alive, tweets, seen, rows_list, new_data,
          scrollable, stop, to_excel, sink, quits, result, ev, scrolled,
          resolves, quit_error, retval, unscrolled, mpc, exit_code, failed,
          call, ac, at>>

\* the state in which run_full_x_scraper is entered
Start ==
  /\ pc = "setup"
  /\ max_tweets \in Targets
  /\ pd \in BOOLEAN
  /\ alive = FALSE
  /\ tweets = <<>>
  /\ seen = {}
  /\ rows_list = <<>>
  /\ new_data = <<>>
  /\ scrollable = "unset"
  /\ stop = "none"
  /\ to_excel = <<>>
  /\ sink = NoFile
  /\ quits = 0
  /\ result = "running"
  /\ ev = NoEv
  /\ scrolled = FALSE
  /\ resolves = 0
  /\ quit_error = FALSE
  /\ retval = <<>>
  /\ unscrolled = 0
  /\ exit_code = 0
  /\ failed = "none"
  /\ call = NoCall
  /\ ac = AcIdle
  /\ at = AtIdle

Init == Start /\ mpc = "none"

\* ------------------------------------------------------------------ run_full_x_scraper
InLoop == pc \in {"check", "scrape", "extract", "scroll"}

\* the operator closes the browser window
CloseWindow ==
  /\ alive
  /\ pc # "done"
  /\ alive' = FALSE
  /\ UNCHANGED <<pc, max_tweets, pd, tweets, seen, rows_list, new_data,
                 scrollable, stop, to_excel, sink, quits, result, ev, scrolled,
                 resolves, quit_error, retval, unscrolled, call, mainvars, geminivars>>

\* driver = setup_chrome(); rows_list = []
Setup ==
  /\ pc = "setup"
  /\ mpc \in {"none", "x"}
  /\ \E started \in BOOLEAN :
       IF started
       THEN alive' = TRUE /\ pc' = "mkdir" /\ stop' = stop /\ result' = result
       ELSE alive' = alive /\ pc' = "done" /\ stop' = "setup" /\ result' = "raised"
  /\ UNCHANGED <<max_tweets, pd, tweets, seen, rows_list, new_data,
                 scrollable, to_excel, sink, quits, ev, scrolled,
                 resolves, quit_error, retval, unscrolled, call, mainvars, geminivars>>

\* os.makedirs(out_dir, exist_ok=True) and the file name, before the try block
MkDir ==
  /\ pc = "mkdir"
  /\ \E created \in BOOLEAN :
       IF created
       THEN pc' = "load" /\ stop' = stop /\ result' = result
       ELSE pc' = "done" /\ stop' = "mkdir" /\ result' = "raised"
  /\ UNCHANGED <<max_tweets, pd, alive, tweets, seen, rows_list, new_data,
                 scrollable, to_excel, sink, quits, ev, scrolled,
                 resolves, quit_error, retval, unscrolled, call, mainvars, geminivars>>

\* driver.get(...) and the 120 s wait for div.jf-element.grid
LoadPage ==
  /\ pc = "load"
  /\ \E ready \in BOOLEAN :
       IF alive /\ ready
       THEN pc' = "news" /\ stop' = stop
       ELSE pc' = "finally" /\ stop' = "load"
  /\ UNCHANGED <<max_tweets, pd, alive, tweets, seen, rows_list, new_data,
                 scrollable, to_excel, sink, quits, result, ev, scrolled,
                 resolves, quit_error, retval, unscrolled, call, mainvars, geminivars>>

\* the 15 s wait for the News button, the click and the 10 s sleep
ClickNews ==
  /\ pc = "news"
  /\ \E clickable \in BOOLEAN :
       IF alive /\ clickable
       THEN pc' = "locate" /\ stop' = stop
       ELSE pc' = "finally" /\ stop' = "news"
  /\ UNCHANGED <<max_tweets, pd, alive, tweets, seen, rows_list, new_data,
                 scrollable, to_excel, sink, quits, result, ev, scrolled,
                 resolves, quit_error, retval, unscrolled, call, mainvars, geminivars>>

\* variant: _get_scrollable_feed raises when no article is mounted
LocateNoContent ==
  /\ pc = "locate"
  /\ seen' = {}
  /\ resolves' = resolves + 1
  /\ IF alive
     THEN \E mounted \in Doms :
            /\ tweets' = mounted
            /\ IF mounted # <<>>
               THEN scrollable' = "element" /\ pc' = "check" /\ stop' = stop
               ELSE scrollable' = scrollable /\ pc' = "finally" /\ stop' = "locate"
     ELSE /\ tweets' = tweets
          /\ scrollable' = scrollable
          /\ pc' = "finally"
          /\ stop' = "locate"
  /\ UNCHANGED <<max_tweets, pd, alive, rows_list, new_data,
                 to_excel, sink, quits, result, ev, scrolled,
                 quit_error, retval, unscrolled, call, mainvars, geminivars>>

\* seen = set(); scrollable = _get_scrollable_feed(driver)
\* tweets holds the articles its find_elements returned
Locate ==
  /\ pc = "locate"
  /\ seen' = {}
  /\ resolves' = resolves + 1
  /\ IF alive
     THEN /\ \E mounted \in Doms :
               /\ tweets' = mounted
               /\ scrollable' = get_scrollable_feed(mounted)
          /\ pc' = "check"
          /\ stop' = stop
     ELSE /\ tweets' = tweets
          /\ scrollable' = scrollable
          /\ pc' = "finally"
          /\ stop' = "locate"
  /\ UNCHANGED <<max_tweets, pd, alive, rows_list, new_data,
                 to_excel, sink, quits, result, ev, scrolled,
                 quit_error, retval, unscrolled, call, mainvars, geminivars>>

\* variant: the iteration scrolls before it extracts
CheckSkipsPass ==
  /\ pc = "check"
  /\ IF Len(rows_list) < max_tweets
     THEN IF alive
          THEN pc' = "scroll" /\ stop' = stop
          ELSE pc' = "finally" /\ stop' = "closed"
     ELSE pc' = "finally" /\ stop' = stop
  /\ tweets' = <<>>
  /\ ev' = NoEv
  /\ UNCHANGED <<max_tweets, pd, alive, seen, rows_list, new_data,
                 scrollable, to_excel, sink, quits, result, scrolled,
                 resolves, quit_error, retval, unscrolled, call, mainvars, geminivars>>

\* while len(rows_list) < max_tweets:  _ = driver.window_handles
Check ==
  /\ pc = "check"
  /\ IF Len(rows_list) < max_tweets
     THEN IF alive
          THEN pc' = "scrape" /\ stop' = stop
          ELSE pc' = "finally" /\ stop' = "closed"
     ELSE pc' = "finally" /\ stop' = stop
  /\ tweets' = <<>>
  /\ ev' = NoEv
  /\ UNCHANGED <<max_tweets, pd, alive, seen, rows_list, new_data,
                 scrollable, to_excel, sink, quits, result, scrolled,
                 resolves, quit_error, retval, unscrolled, call, mainvars, geminivars>>

\* scrape_visible_tweets: tweets = driver.find_elements(...)
Snapshot ==
  /\ pc = "scrape"
  /\ IF alive
     THEN \E d \in Doms : tweets' = d
     ELSE tweets' = <<>>
  /\ pc' = "extract"
  /\ UNCHANGED <<max_tweets, pd, alive, seen, rows_list, new_data,
                 scrollable, stop, to_excel, sink, quits, result, ev, scrolled,
                 resolves, quit_error, retval, unscrolled, call, mainvars, geminivars>>

\* What the item loop reads: with the window closed every lookup raises.
Readable(ts) ==
  IF alive THEN ts
  ELSE [i \in 1..Len(ts) |-> [ts[i] EXCEPT !.el = "stale"]]

\* variant: the pass gives up when it admitted nothing (a stall detector)
ExtractStall ==
  /\ pc = "extract"
  /\ LET r == scrape_visible_tweets(Readable(tweets), seen)
         rows == Admit(rows_list, r.new_tweets, max_tweets)
     IN /\ seen' = r.seen_texts
        /\ new_data' = r.new_tweets
        /\ rows_list' = rows
        /\ IF TargetReached(rows, max_tweets)
           THEN pc' = "finally" /\ stop' = "target" /\ unscrolled' = unscrolled
           ELSE IF r.new_tweets = <<>>
                THEN pc' = "finally" /\ stop' = "stalled" /\ unscrolled' = unscrolled
                ELSE pc' = "scroll" /\ stop' = stop /\ unscrolled' = unscrolled + 1
  /\ UNCHANGED <<max_tweets, pd, alive, tweets, scrollable, to_excel, sink,
                 quits, result, ev, scrolled, resolves, quit_error, retval,
                 call, mainvars, geminivars>>

\* the item loop of scrape_visible_tweets, the admission loop and the
\* capacity check of the iteration
Extract ==
  /\ pc = "extract"
  /\ LET r == scrape_visible_tweets(Readable(tweets), seen)
         rows == Admit(rows_list, r.new_tweets, max_tweets)
     IN /\ seen' = r.seen_texts
        /\ new_data' = r.new_tweets
        /\ rows_list' = rows
        /\ IF TargetReached(rows, max_tweets)
           THEN pc' = "finally" /\ stop' = "target" /\ unscrolled' = unscrolled
           ELSE pc' = "scroll" /\ stop' = stop /\ unscrolled' = unscrolled + 1
  /\ UNCHANGED <<max_tweets, pd, alive, tweets, scrollable, to_excel, sink,
                 quits, result, ev, scrolled, resolves, quit_error, retval,
                 call, mainvars, geminivars>>

\* variant: the iteration resolves the scroll target again before scrolling
ScrollResolving ==
  /\ pc = "scroll"
  /\ IF alive
     THEN /\ pc' = "check"
          /\ stop' = stop
          /\ scrolled' = TRUE
          /\ resolves' = resolves + 1
          /\ scrollable' = get_scrollable_feed(tweets)
          /\ \E h \in Heights :
               ev' = [scroll |-> scroll_feed(get_scrollable_feed(tweets),
                                             <<ScrollAmount>>, h),
                      sleep  |-> SettleDelay]
     ELSE /\ pc' = "finally"
          /\ stop' = "closed"
          /\ UNCHANGED <<ev, scrolled, resolves, scrollable>>
  /\ tweets' = <<>>
  /\ unscrolled' = unscrolled - 1
  /\ call' = [scrollable |-> get_scrollable_feed(tweets),
              amount |-> <<ScrollAmount>>]
  /\ UNCHANGED <<max_tweets, pd, alive, seen, rows_list, new_data,
                 to_excel, sink, quits, result,
                 quit_error, retval, mainvars, geminivars>>

\* _scroll_feed(driver, scrollable, amount=700); time.sleep(3)
Scroll ==
  /\ pc = "scroll"
  /\ IF alive
     THEN /\ pc' = "check"
          /\ stop' = stop
          /\ scrolled' = TRUE
          /\ \E h \in Heights :
               ev' = [scroll |-> scroll_feed(scrollable, <<ScrollAmount>>, h),
                      sleep  |-> SettleDelay]
     ELSE /\ pc' = "finally"
          /\ stop' = "closed"
          /\ UNCHANGED <<ev, scrolled>>
  /\ tweets' = <<>>
  /\ unscrolled' = unscrolled - 1
  /\ call' = [scrollable |-> scrollable, amount |-> <<ScrollAmount>>]
  /\ UNCHANGED <<max_tweets, pd, alive, seen, rows_list, new_data,
                 scrollable, to_excel, sink, quits, result,
                 resolves, quit_error, retval, mainvars, geminivars>>

\* finally: the DataFrame is written, or "No data was captured."
Flush ==
  /\ pc = "finally"
  /\ IF FlushGuard(rows_list, pd)
     THEN /\ to_excel' = Append(to_excel, rows_list)
          /\ \E written \in BOOLEAN :
               IF written
               THEN sink' = File(rows_list) /\ pc' = "quit" /\ result' = result
               ELSE sink' = sink /\ pc' = "done" /\ result' = "raised"
     ELSE /\ pc' = "quit"
          /\ UNCHANGED <<to_excel, sink, result>>
  /\ tweets' = <<>>
  /\ ev' = NoEv
  /\ UNCHANGED <<max_tweets, pd, alive, seen, rows_list, new_data,
                 scrollable, stop, quits, scrolled,
                 resolves, quit_error, retval, unscrolled, call, mainvars, geminivars>>

\* variant: the pre-loop exception is swallowed (try/except instead of try/finally)
PendingNever == FALSE

\* an exception raised before the loop is still pending after the finally block
Pending == stop \in {"load", "news", "locate"}

\* variant: the location is returned together with the record count
ReturnValueWithCount == <<FilePath, Len(rows_list)>>

\* return filepath
ReturnValue == <<FilePath>>

\* try: driver.quit() except: pass; then return filepath or re-raise
Quit ==
  /\ pc = "quit"
  /\ quits' = quits + 1
  /\ alive' = FALSE
  /\ \E raised \in BOOLEAN : quit_error' = raised
  /\ result' = IF Pending THEN "raised" ELSE "returned"
  /\ retval' = IF Pending THEN retval ELSE ReturnValue
  /\ pc' = "done"
  /\ UNCHANGED <<max_tweets, pd, tweets, seen, rows_list, new_data,
                 scrollable, stop, to_excel, sink, ev, scrolled, resolves,
                 unscrolled, call, mainvars, geminivars>>

Next ==
  \/ CloseWindow
  \/ Setup
  \/ MkDir
  \/ LoadPage
  \/ ClickNews
  \/ Locate
  \/ Check
  \/ Snapshot
  \/ Extract
  \/ Scroll
  \/ Flush
  \/ Quit

Spec == Init /\ [][Next]_vars

\* ------------------------------------------------------------------ main.main
\* variant: the except clause of main ends the process with status 0
ExitCodeSwallowed(raised) == IF raised THEN 0 ELSE 0

\* sys.exit(1) in the except clause (and the status of an uncaught exception);
\* 0 when main returns
ExitCode(raised) == IF raised THEN 1 ELSE 0

\* the stage at position mpc raised: the process ends
Fail ==
  /\ mpc' = "exit"
  /\ failed' = mpc
  /\ exit_code' = ExitCode(TRUE)

\* main returns
Return ==
  /\ mpc' = "exit"
  /\ failed' = failed
  /\ exit_code' = ExitCode(FALSE)

Goto(stage) ==
  /\ mpc' = stage
  /\ UNCHANGED <<exit_code, failed>>

scrapervars ==
  <<pc, max_tweets, pd, alive, tweets, seen, rows_list, new_data,
    scrollable, stop, to_excel, sink, quits, result, ev, scrolled,
    resolves, quit_error, retval, unscrolled, call>>

\* client = get_client(), before the try block
GetClient ==
  /\ mpc = "client"
  /\ \E ok \in BOOLEAN : IF ok THEN Goto("bq") ELSE Fail
  /\ UNCHANGED <<scrapervars, geminivars>>

\* get_rising_trends raises without credentials and swallows every other error
GetRisingTrends ==
  /\ mpc = "bq"
  /\ \E credentials \in BOOLEAN : IF credentials THEN Goto("gdelt") ELSE Fail
  /\ UNCHANGED <<scrapervars, geminivars>>

\* fetch_gdelt_articles swallows its errors
FetchGdelt ==
  /\ mpc = "gdelt"
  /\ Goto("x")
  /\ UNCHANGED <<scrapervars, geminivars>>

\* x_raw_path = run_full_x_scraper(max_tweets=20) has returned or raised
ScraperEnds ==
  /\ mpc = "x"
  /\ pc = "done"
  /\ IF result = "returned" THEN Goto("distill") ELSE Fail
  /\ UNCHANGED <<scrapervars, geminivars>>

\* distill_search_terms, and the return when no trend was distilled
Distill ==
  /\ mpc = "distill"
  /\ \E outcome \in {"raises", "empty", "trends"} :
       CASE outcome = "raises" -> Fail
         [] outcome = "empty"  -> Return
         [] outcome = "trends" -> Goto("visuals")
  /\ UNCHANGED <<scrapervars, geminivars>>

\* the fetch_and_save_visuals loop (its os.makedirs is outside its try)
Visuals ==
  /\ mpc = "visuals"
  /\ \E ok \in BOOLEAN : IF ok THEN Goto("analyze") ELSE Fail
  /\ UNCHANGED <<scrapervars, geminivars>>

\* analyze_visual_strategy
Analyze ==
  /\ mpc = "analyze"
  /\ \E ok \in BOOLEAN : IF ok THEN Goto("assets") ELSE Fail
  /\ UNCHANGED <<scrapervars, geminivars>>

\* process_final_assets, then the end of main
Assets ==
  /\ mpc = "assets"
  /\ \E ok \in BOOLEAN : IF ok THEN Return ELSE Fail
  /\ UNCHANGED <<scrapervars, geminivars>>

MainInit == Start /\ mpc = "client"

MainNext ==
  \/ Next
  \/ GetClient
  \/ GetRisingTrends
  \/ FetchGdelt
  \/ ScraperEnds
  \/ Distill
  \/ Visuals
  \/ Analyze
  \/ Assets

MainSpec == MainInit /\ [][MainNext]_vars

\* ------------------------------------------------------------------ properties
Bodies(rows) == { rows[i].text : i \in 1..Len(rows) }

IsPrefix(s, t) == Len(s) <= Len(t) /\ SubSeq(t, 1, Len(s)) = s

\* the step in which an extraction pass (and the admission of its result) ends
PassEnds == pc = "extract" /\ pc' # "extract"

\* C1. Capacity bound: rows_list never holds more than max_tweets records,
\* the loop is never at work with a full rows_list, and the target-reached
\* exit is taken by a pass exactly when that pass ends with
\* len(rows_list) = max_tweets (and by no other step).
C1_Bounded ==
  /\ Len(rows_list) <= max_tweets
  /\ InLoop => Len(rows_list) < max_tweets

C1_ExitStep ==
  /\ PassEnds =>
       ((stop' = "target" /\ pc' = "finally") <=> Len(rows_list') = max_tweets)
  /\ stop' = "target" /\ stop # "target" => PassEnds

C1_CapacityBound == []C1_Bounded /\ [][C1_ExitStep]_vars

\* a pass with more new items than remaining capacity has reached the target
C1_Witness ==
  /\ stop = "target"
  /\ max_tweets >= 2
  /\ Len(rows_list) = max_tweets
  /\ Len(new_data) > 1
  /\ Cardinality(seen) > max_tweets

Finalized == pc \in {"quit", "done"}

\* the loop was entered and ended (target reached, window closed or a call raised)
AfterLoading == stop \in {"target", "closed"}

BeforeLoading == stop \in {"load", "news"}

\* C2 as stated. Flush-always: in every terminal state reached after loading
\* completed the sink write was invoked exactly once, with exactly the
\* records of rows_list; after a failure before loading completed it was
\* never invoked. (Stated for runs in which pandas was imported.)
C2_FlushAlways ==
  pd =>
    /\ Finalized /\ AfterLoading => to_excel = <<rows_list>>
    /\ BeforeLoading => to_excel = <<>>

\* C2 amended. The sink write is invoked exactly once, with exactly the
\* records of rows_list, in every terminal state whose rows_list is not empty
\* (pandas being importable); it is never invoked with an empty rows_list,
\* without pandas, before the finally block, or after a failure before
\* loading completed.
C2_FlushOnceIfRows ==
  /\ Finalized /\ rows_list # <<>> /\ pd => to_excel = <<rows_list>>
  /\ Finalized /\ (rows_list = <<>> \/ ~pd) => to_excel = <<>>
  /\ ~Finalized => to_excel = <<>>
  /\ BeforeLoading => to_excel = <<>> /\ rows_list = <<>>

\* the window was closed with records admitted, and the run is over
C2_Witness ==
  /\ pc = "done"
  /\ stop = "closed"
  /\ rows_list # <<>>
  /\ to_excel = <<rows_list>>
  /\ sink = File(rows_list)

\* the sink write was called and raised
FlushRaised == to_excel # <<>> /\ ~sink.written /\ Finalized

\* C3. Close runs even if flush raises: when df.to_excel raises, driver.quit
\* has still been invoked once the function has exited.
C3_CloseAfterFlushRaises == pc = "done" /\ FlushRaised => quits >= 1

\* C4. Partial results survive termination: after the loop was stopped by a
\* failed liveness check or a raising call with k >= 1 records admitted, the
\* function returns normally, the file holds exactly rows_list, and
\* driver.quit was invoked. (Stated for runs in which pandas was imported.)
C4_PartialResults ==
  pd /\ pc = "done" /\ stop = "closed" /\ Len(rows_list) >= 1 =>
    /\ result = "returned"
    /\ sink = File(rows_list)
    /\ quits = 1

\* what the claims call the trimmed body of a mounted item: its text without
\* the leading and trailing whitespace, when the text element is there
NonBlank(item) ==
  item.el = "ok" /\ \E k \in 1..Len(item.text) : item.text[k] \notin Whitespace

Body(item) == strip(item.text)

\* C5. Dedup idempotence: a pass that presents only items whose trimmed body
\* was already admitted returns no new records and leaves rows_list (count,
\* records and order) as it was.
C5_Step ==
  (/\ PassEnds
   /\ \A i \in 1..Len(tweets) :
        NonBlank(tweets[i]) /\ Body(tweets[i]) \in Bodies(rows_list))
  => new_data' = <<>> /\ rows_list' = rows_list

C5_DedupIdempotence == [][C5_Step]_vars

\* a pass over re-mounted, differently padded items has returned nothing
C5_Witness ==
  /\ pc = "scroll"
  /\ alive
  /\ Len(tweets) = MaxDom
  /\ \A i \in 1..Len(tweets) :
       NonBlank(tweets[i]) /\ Body(tweets[i]) \in Bodies(rows_list)
  /\ \E i \in 1..Len(tweets) : tweets[i].text # Body(tweets[i])
  /\ new_data = <<>>
  /\ rows_list # <<>>

\* C6. At-most-once admission: no two records of rows_list have the same
\* body text.
C6_AtMostOnce ==
  \A i, j \in 1..Len(rows_list) :
    rows_list[i].text = rows_list[j].text => i = j

\* one body mounted twice in a single pass was admitted once
C6_Witness ==
  /\ pc = "scroll"
  /\ alive
  /\ Len(tweets) = 2
  /\ NonBlank(tweets[1]) /\ NonBlank(tweets[2])
  /\ Body(tweets[1]) = Body(tweets[2])
  /\ Len(new_data) = 1
  /\ new_data[1].text = Body(tweets[1])
  /\ Len(rows_list) = 1

\* C7. Fingerprint-skip on blank: an item whose text element is absent, empty
\* or whitespace-only is neither admitted nor added to seen; every record
\* and every seen text is non-empty and trimmed.
Trimmed(text) ==
  text # <<>> /\ text[1] \notin Whitespace /\ text[Len(text)] \notin Whitespace

C7_NonBlankRecords ==
  /\ \A i \in 1..Len(rows_list) : Trimmed(rows_list[i].text)
  /\ \A i \in 1..Len(new_data) : Trimmed(new_data[i].text)
  /\ \A t \in seen : Trimmed(t)

C7_Step ==
  (PassEnds /\ \A i \in 1..Len(tweets) : ~NonBlank(tweets[i]))
  => seen' = seen /\ rows_list' = rows_list /\ new_data' = <<>>

C7_SkipOnBlank == []C7_NonBlankRecords /\ [][C7_Step]_vars

\* a pass over an item without text element and a whitespace-only item, both
\* with an account, has admitted nothing
C7_Witness ==
  /\ pc = "scroll"
  /\ alive
  /\ Len(tweets) = 2
  /\ tweets[1].el = "absent" /\ get_tweet_author(tweets[1]) \in Accounts
  /\ tweets[2].el = "ok" /\ tweets[2].text = <<" ", "\n">>
  /\ get_tweet_author(tweets[2]) \in Accounts
  /\ new_data = <<>>
  /\ rows_list = <<>>
  /\ seen = {}

\* the items of a snapshot whose body is observed for the first time in the
\* session, in DOM order
FirstIdx(ts, admitted) ==
  { i \in 1..Len(ts) :
      /\ NonBlank(ts[i])
      /\ Body(ts[i]) \notin admitted
      /\ \A j \in 1..(i - 1) : NonBlank(ts[j]) => Body(ts[j]) # Body(ts[i]) }

FirstSeenRows(ts, admitted) ==
  LET S == FirstIdx(ts, admitted)
      nth(k) == CHOOSE i \in S : Cardinality({ j \in S : j < i }) = k - 1
  IN [k \in 1..Cardinality(S) |->
        MakeRow(ts[nth(k)], Body(ts[nth(k)]))]

\* C8. First seen, first kept: a pass appends, in DOM order, the items whose
\* body is observed for the first time, each with the fields of its first
\* occurrence, up to the capacity; no step moves, replaces or removes an
\* admitted record.
C8_Step ==
  /\ IsPrefix(rows_list, rows_list')
  /\ PassEnds =>
       LET first == IF alive THEN FirstSeenRows(tweets, Bodies(rows_list)) ELSE <<>>
           room == max_tweets - Len(rows_list)
           kept == IF Len(first) <= room THEN first ELSE SubSeq(first, 1, room)
       IN rows_list' = rows_list \o kept
  /\ ~PassEnds => rows_list' = rows_list

C8_FirstSeenFirstKept == [][C8_Step]_vars

\* hello was admitted from @A; a later pass presented hello from @B, then
\* world from @B: hello is kept with @A's fields and world comes second
C8_Witness ==
  /\ pc \in {"scroll", "finally"}
  /\ alive
  /\ Len(rows_list) = 2
  /\ rows_list[1].account = <<"@", "A">> /\ rows_list[1].text = <<"h">>
  /\ rows_list[2].account = <<"@", "B">> /\ rows_list[2].text = <<"w">>
  /\ Len(tweets) = 2
  /\ tweets[1].user = UserName(<<"B">>) /\ NonBlank(tweets[1]) /\ Body(tweets[1]) = <<"h">>
  /\ tweets[2].user = UserName(<<"B">>) /\ NonBlank(tweets[2]) /\ Body(tweets[2]) = <<"w">>

\* C9. Fatal pre-load failure: after a failed wait for the ready selector or
\* the News button the run is in its finally path, never entered the loop
\* (seen and scrollable untouched, no record), writes no file, and ends by
\* closing the browser and raising to the caller.
C9_FatalPreLoad ==
  BeforeLoading =>
    /\ pc \in {"finally", "quit", "done"}
    /\ rows_list = <<>> /\ seen = {} /\ scrollable = "unset" /\ tweets = <<>>
    /\ to_excel = <<>> /\ sink = NoFile
    /\ pc = "done" => result = "raised" /\ quits = 1
    /\ pc # "done" => result = "running"

\* the News button never became clickable, and the run is over
C9_Witness ==
  /\ pc = "done"
  /\ stop = "news"
  /\ result = "raised"
  /\ quits = 1
  /\ sink = NoFile

\* C10 as stated. Empty session is still persisted: a loop stopped after
\* loading with zero records has its (empty) record sequence written to the
\* sink. (Stated for runs in which pandas was imported.)
C10_EmptyPersisted ==
  pd /\ pc = "done" /\ AfterLoading /\ rows_list = <<>> =>
    sink.written /\ sink.table = Table(rows_list)

\* C10 amended. A loop stopped after loading with zero records persists
\* nothing: the sink write is not invoked, no file exists at filepath, the
\* browser is closed and the function returns.
C10_EmptyNotPersisted ==
  pc = "done" /\ AfterLoading /\ rows_list = <<>> =>
    /\ to_excel = <<>>
    /\ sink = NoFile
    /\ quits = 1
    /\ result = "returned"

\* the window was closed before any item was admitted, with pandas imported
C10_Witness ==
  /\ pc = "done"
  /\ pd
  /\ stop = "closed"
  /\ scrollable # "unset"
  /\ rows_list = <<>>
  /\ sink = NoFile
  /\ result = "returned"

\* the step in which _get_scrollable_feed is called
Resolves == pc = "locate" /\ pc' # "locate"

\* C11 as stated. NoContentError: when no feed item is mounted at the moment
\* the scroll target is resolved, locating the target fails with a fatal
\* error, the loop is not entered and nothing is flushed.
C11_NoContentError ==
  [][Resolves /\ alive /\ tweets' = <<>>
       => pc' = "finally" /\ stop' = "locate" /\ scrollable' = scrollable]_vars

C11_Fallback ==
  /\ scrollable = "None" => ev.scroll.on \in {"none", "window"}
  /\ scrollable = "element" => ev.scroll.on \in {"none", "element"}
  /\ stop = "locate" => ~alive /\ scrollable = "unset"

C11_Step ==
  Resolves /\ alive =>
    /\ scrollable' = IF tweets' = <<>> THEN "None" ELSE "element"
    /\ pc' = "check"
    /\ stop' = "none"
    /\ result' = "running"

\* C11 amended. No error when nothing is mounted: with the window open the
\* resolution of the scroll target never fails; when no feed item is mounted
\* it yields None, the loop is entered, every later scroll is a window scroll,
\* and the records admitted afterwards are flushed as in any other session.
\* Locating fails only when the browser call itself raises.
C11_NoneFallback == []C11_Fallback /\ [][C11_Step]_vars

\* a session whose scroll target was resolved to None has scrolled the
\* window, admitted records, written them and returned
C11_Witness ==
  /\ pc = "done"
  /\ scrollable = "None"
  /\ scrolled
  /\ rows_list # <<>>
  /\ sink = File(rows_list)
  /\ result = "returned"

\* C12. No scroll after the target is reached: a scroll command or a settle
\* delay is issued only by an iteration that ended below the target; the pass
\* that reaches the target issues none, and none follows it.  With
\* max_tweets = 1 and a first pass that reads one non-blank item, that pass
\* ends the loop with one record and no scroll was ever issued.
C12_Quiet == stop = "target" => ev = NoEv

C12_Step ==
  /\ ev' # ev /\ ev' # NoEv => Len(rows_list) < max_tweets /\ stop' = "none"
  /\ (stop' = "target" \/ stop = "target") => ev' = NoEv /\ scrolled' = scrolled
  /\ (PassEnds /\ alive /\ ~scrolled /\ max_tweets = 1
        /\ \E i \in 1..Len(tweets) : NonBlank(tweets[i]))
     => /\ stop' = "target"
        /\ pc' = "finally"
        /\ Len(rows_list') = 1
        /\ ~scrolled'

C12_NoScrollAfterTarget == []C12_Quiet /\ [][C12_Step]_vars

\* max_tweets = 1: the first pass read a non-blank item, admitted it and ended
\* the loop; no scroll was issued
C12_Witness ==
  /\ pc = "finally"
  /\ stop = "target"
  /\ max_tweets = 1
  /\ Len(rows_list) = 1
  /\ \E i \in 1..Len(tweets) : NonBlank(tweets[i])
  /\ ~scrolled
  /\ ev = NoEv

\* C13. Browser release on every exit path: once setup_chrome has returned a
\* driver, every exit of run_full_x_scraper in which the flush did not raise
\* has invoked driver.quit exactly once, and an exception of driver.quit is
\* not propagated.
C13_BrowserRelease ==
  pc = "done" /\ stop # "setup" /\ ~FlushRaised =>
    /\ quits = 1
    /\ quit_error /\ ~Pending => result = "returned"

\* C14 as stated. Returned artifact: at its terminal state
\* run_full_x_scraper returns the sink's location together with the final
\* record count, and the location designates the file the flush wrote.
C14_ReturnedArtifact ==
  result = "returned" =>
    /\ Len(retval) = 2
    /\ retval[1] = FilePath
    /\ retval[2] = Len(rows_list)
    /\ sink.written /\ sink.path = retval[1]

\* C14 amended. The returned value is the location alone, without a record
\* count; nothing is returned when the function raises.  A file written by the
\* flush is at the returned location and holds rows_list; when rows_list is
\* empty or pandas is missing the returned location designates no file.
C14_ReturnedLocation ==
  /\ result = "returned" => Len(retval) = 1 /\ retval[1] = FilePath
  /\ result # "returned" => retval = <<>>
  /\ sink.written => sink.path = FilePath
  /\ result = "returned" /\ rows_list # <<>> /\ pd => sink = File(rows_list)
  /\ result = "returned" /\ (rows_list = <<>> \/ ~pd) => sink = NoFile

\* two records were written and the location of their file was returned
C14_Witness ==
  /\ pc = "done"
  /\ result = "returned"
  /\ Len(retval) = 1
  /\ Len(rows_list) = 2
  /\ sink.written
  /\ sink.path = retval[1]
  /\ Len(sink.table) = 2

\* what stopped run_full_x_scraper before its loop was entered
PreScraping == {"setup", "mkdir", "load", "news", "locate"}

LaterStages == {"distill", "visuals", "analyze", "assets"}

\* C15 as stated. CLI exit code: main.main exits with 0 whenever the harvest
\* completed (even with zero records), exits non-zero only after a fatal
\* failure before the scraper entered its loop, and a failure of a later
\* stage does not give a non-zero exit.
C15_ExitCode ==
  mpc = "exit" =>
    /\ result = "returned" => exit_code = 0
    /\ exit_code # 0 =>
         /\ failed \in {"client", "bq", "x"}
         /\ failed = "x" => stop \in PreScraping
    /\ failed \in LaterStages => exit_code = 0

\* C15 amended. main.main exits with 0 exactly when no stage raised (every
\* stage completed, or no trend was distilled and main returned early), also
\* with zero records harvested; it exits with 1 when any stage raised:
\* get_client, get_rising_trends, run_full_x_scraper (before its loop, or in
\* its flush after the loop) or any stage after the harvest.
C15_ExitOnAnyFailure ==
  /\ mpc # "exit" => failed = "none" /\ exit_code = 0
  /\ mpc = "exit" =>
       /\ exit_code = (IF failed = "none" THEN 0 ELSE 1)
       /\ failed \in {"client", "bq"} => result = "running"
       /\ failed = "x" => result = "raised" /\ (stop \in PreScraping \/ FlushRaised)
       /\ failed \in LaterStages \cup {"none"} => result = "returned"

\* the harvest returned with zero records and the manufacturing stage raised:
\* the process ended with status 1
C15_Witness ==
  /\ mpc = "exit"
  /\ result = "returned"
  /\ rows_list = <<>>
  /\ stop = "closed"
  /\ failed = "assets"
  /\ exit_code = 1

\* C16. Sink layout: the flushed file has exactly one row per record of
\* rows_list, in session order, and exactly the columns account handle,
\* permalink, body text, media references, like count, retweet count, in that
\* order.
C16_SinkLayout ==
  sink.written =>
    /\ sink.columns =
         <<"account", "tweet_url", "text", "media_links", "likes", "retweets">>
    /\ Len(sink.table) = Len(rows_list)
    /\ \A i \in 1..Len(rows_list) :
         sink.table[i] =
           <<rows_list[i].account, rows_list[i].tweet_url, rows_list[i].text,
             rows_list[i].media_links, rows_list[i].likes, rows_list[i].retweets>>

\* the file holds the record of @A's "h" and then the record of @B's "w",
\* each with its six cells in column order
C16_Witness ==
  /\ sink.written
  /\ Len(sink.table) = 2
  /\ sink.table[1] =
       <<(<<"@", "A">>), (<<"u">>), (<<"h">>), TextOnly, (<<"5">>), (<<>>)>>
  /\ sink.table[2] =
       <<(<<"@", "B">>), (<<"u">>), (<<"w">>), TextOnly, (<<"5">>), (<<>>)>>

\* ------------------------------------------------------------------ field lookups of one pass
RetweetLabel == <<"1", ".", "2", "K", " ", "R">>

FullMedia == Media("ok", <<(<<"i">>)>>, "ok", <<(<<"p">>)>>)

ImgsRaise == Media("raises", <<>>, "ok", <<>>)

VidsRaise == Media("ok", <<(<<"i">>)>>, "raises", <<>>)

EmptySrc == Media("ok", <<(<<>>)>>, "ok", <<(<<"p">>)>>)

\* what the lookup of an engagement element can give: the label, a label
\* without a number, no aria-label, no element, an exception
Labels(label) == {Found(label), Found(<<"L">>), NoAttr, Absent, Raises}

\* articles with the body "h" and every outcome of every field lookup
FieldItems ==
  [el      : {"ok"},
   text    : {<<"h">>},
   user    : {UserName(<<"A">>), UserName(<<"x">>), Absent, Raises},
   time    : {Found(Permalink), NoAttr, Absent, Raises},
   media   : {FullMedia, NoMedia, ImgsRaise, VidsRaise, EmptySrc},
   like    : Labels(LikeLabel),
   retweet : Labels(RetweetLabel)]

\* a complete article with another body, mounted next to the one under test
Neighbour ==
  [el |-> "ok", text |-> <<"w">>, user |-> UserName(<<"B">>),
   time |-> Found(Permalink), media |-> FullMedia,
   like |-> Found(LikeLabel), retweet |-> Found(RetweetLabel)]

FieldBatches ==
  { <<x, Neighbour>> : x \in FieldItems } \cup { <<Neighbour, x>> : x \in FieldItems }

\* the first pass of a session over one batch
FieldInit ==
  /\ pc = "extract"
  /\ tweets \in FieldBatches
  /\ max_tweets = MaxTarget
  /\ pd = TRUE
  /\ alive = TRUE
  /\ seen = {}
  /\ rows_list = <<>>
  /\ new_data = <<>>
  /\ scrollable = "element"
  /\ stop = "none"
  /\ to_excel = <<>>
  /\ sink = NoFile
  /\ quits = 0
  /\ result = "running"
  /\ ev = NoEv
  /\ scrolled = FALSE
  /\ resolves = 1
  /\ quit_error = FALSE
  /\ retval = <<>>
  /\ unscrolled = 0
  /\ mpc = "none"
  /\ exit_code = 0
  /\ failed = "none"
  /\ call = NoCall
  /\ ac = AcIdle
  /\ at = AtIdle

FieldNext == Extract

FieldSpec == FieldInit /\ [][FieldNext]_vars

\* the lookup gave nothing: the element or attribute is missing, or it raised
Missing(lookup) == lookup.st \in {"noattr", "absent", "raises"}

\* no media link is there, or the first media lookup raised
MediaMissing(m) == m \in {NoMedia, ImgsRaise}

IsEmpty(v) == v = <<>> \/ v = None

EmittedAll ==
  /\ Len(new_data) = Len(tweets)
  /\ \A i \in 1..Len(tweets) : new_data[i].text = tweets[i].text

\* C17 as stated. Field independence: every item is emitted; a field whose
\* lookup is missing or fails is an empty value, and every field whose lookup
\* succeeds is populated.
C17_FieldsEmpty ==
  pc # "extract" =>
    /\ EmittedAll
    /\ \A i \in 1..Len(tweets) :
         /\ Missing(tweets[i].user) => IsEmpty(new_data[i].account)
         /\ Missing(tweets[i].time) => IsEmpty(new_data[i].tweet_url)
         /\ MediaMissing(tweets[i].media) => IsEmpty(new_data[i].media_links)
         /\ Missing(tweets[i].like) => IsEmpty(new_data[i].likes)
         /\ Missing(tweets[i].retweet) => IsEmpty(new_data[i].retweets)

C17_Account(user, account) ==
  /\ user = UserName(<<"A">>) => account = <<"@", "A">>
  /\ user = UserName(<<"B">>) => account = <<"@", "B">>
  /\ user = UserName(<<"x">>) \/ Missing(user) => account = <<>>

C17_Link(time, tweet_url) ==
  /\ time = Found(Permalink) => tweet_url = <<"u">>
  /\ time = NoAttr => tweet_url = None
  /\ time \in {Absent, Raises} => tweet_url = <<>>

C17_MediaLinks(media, media_links) ==
  /\ media = FullMedia =>
       media_links = <<"i", " ", "|", " ", "P", "o", "s", "t", "e", "r", ":", " ", "p">>
  /\ media = EmptySrc =>
       media_links = <<"P", "o", "s", "t", "e", "r", ":", " ", "p">>
  /\ media = VidsRaise => media_links = <<"i">>
  /\ MediaMissing(media) =>
       media_links = <<"t", "e", "x", "t", "-", "o", "n", "l", "y">>

C17_Count(lookup, label, number, count) ==
  /\ lookup = Found(label) => count = number
  /\ lookup # Found(label) => count = <<>>

\* C17 amended. Every item with a non-blank unseen body is emitted whatever
\* its field lookups do, and each field depends on its own lookup only:
\* author, likes and retweets are "" when missing or failing; the permalink is
\* "" when its lookup fails and None when the href is missing; the media
\* field is the literal "text-only" when no link was collected, and holds the
\* links collected before a failing lookup otherwise.
C17_FieldIndependence ==
  pc # "extract" =>
    /\ EmittedAll
    /\ \A i \in 1..Len(tweets) :
         /\ C17_Account(tweets[i].user, new_data[i].account)
         /\ C17_Link(tweets[i].time, new_data[i].tweet_url)
         /\ C17_MediaLinks(tweets[i].media, new_data[i].media_links)
         /\ C17_Count(tweets[i].like, LikeLabel, <<"5">>, new_data[i].likes)
         /\ C17_Count(tweets[i].retweet, RetweetLabel, <<"1", ".", "2", "K">>,
                      new_data[i].retweets)

\* the media lookup of the first article raised and nothing else was missing:
\* its record has every other field, and the neighbour's record follows
C17_Witness ==
  /\ pc # "extract"
  /\ Len(tweets) = 2
  /\ tweets[1].media = ImgsRaise
  /\ tweets[2] = Neighbour
  /\ Len(new_data) = 2
  /\ new_data[1] =
       [account |-> <<"@", "A">>, tweet_url |-> <<"u">>, text |-> <<"h">>,
        media_links |-> TextOnly, likes |-> <<"5">>,
        retweets |-> <<"1", ".", "2", "K">>]
  /\ new_data[2].text = <<"w">>

\* C18 as stated. Scroll target resolved once: the target is resolved exactly
\* once, after loading and before the first pass, only when the first feed
\* items are present, and no loop iteration resolves or assigns it again.
C18_ResolvedWhenPresent ==
  /\ InLoop => resolves = 1 /\ scrollable = "element"
  /\ ~InLoop /\ resolves = 0 => scrollable = "unset"

C18_Once ==
  /\ resolves <= 1
  /\ pc \in {"setup", "mkdir", "load", "news", "locate"} =>
       resolves = 0 /\ scrollable = "unset"
  /\ InLoop => resolves = 1 /\ scrollable \in {"element", "None"}

C18_Step ==
  /\ (scrollable' # scrollable \/ resolves' # resolves) => Resolves
  /\ Resolves /\ alive => (scrollable' = "element" <=> tweets' # <<>>)
  /\ Resolves /\ ~alive => scrollable' = "unset"

\* C18 amended. The scroll target is resolved exactly once per session,
\* after the News click and before the first pass, whether or not a feed item
\* is mounted at that moment: it is the scroll container when an item is
\* mounted and None otherwise.  No loop iteration resolves or assigns it
\* again.
C18_ResolvedOnceOrNone == []C18_Once /\ [][C18_Step]_vars

\* after a pass that admitted nothing and a scroll of the element, the target
\* is still the element resolved before the loop
C18_Witness ==
  /\ pc = "check"
  /\ resolves = 1
  /\ scrollable = "element"
  /\ ev.scroll.on = "element"
  /\ seen = {}
  /\ alive

\* C19 as stated. Scroll step: in every iteration that does not reach the
\* target the scroll advance is a fixed fraction (0.7, as in the legacy loop)
\* of the viewport height of the scroll target, followed by one fixed settle
\* delay before the next pass.
C19_FractionOfViewport ==
  ev # NoEv =>
    /\ 10 * ev.scroll.amount = 7 * ev.scroll.clientHeight
    /\ ev.sleep = 3

C19_Pixels ==
  ev # NoEv =>
    /\ ev.scroll.amount = 700
    /\ ev.scroll.clientHeight \in Heights
    /\ ev.sleep = 3
    /\ pc = "check"

C19_Step ==
  /\ (pc = "scroll" /\ alive /\ pc' # "scroll") => ev' # NoEv /\ pc' = "check"
  /\ (ev' # ev /\ ev' # NoEv) => pc = "scroll" /\ stop = "none"
  /\ (PassEnds /\ stop' # "target") => pc' = "scroll"

\* C19 amended. In every iteration that does not reach the target (the
\* window being open) the scroll advance is the constant 700 pixels, whatever
\* the viewport height of the scroll target, and it is followed by one sleep
\* of 3 seconds before the next loop test.
C19_FixedPixels == []C19_Pixels /\ [][C19_Step]_vars

\* a target whose viewport is 600 pixels high was advanced by 700 pixels
\* after a pass that left the session below its target
C19_Witness ==
  /\ pc = "check"
  /\ alive
  /\ max_tweets = 2
  /\ Len(rows_list) = 1
  /\ ev.scroll = [on |-> "element", mode |-> "by", amount |-> 700, clientHeight |-> 600]
  /\ ev.sleep = 3

\* C20. Loop exit conditions: a step leaves the loop only because the target
\* was reached by the pass just ended or because a browser call raised (the
\* window is closed); no stop reason other than these exists.  With the window
\* open, a step that ends below the target stays in the loop, however many
\* passes admitted nothing.
C20_Reasons ==
  /\ stop \in {"none", "target", "closed"} \cup PreScraping
  /\ InLoop => stop = "none"

C20_Step ==
  /\ (InLoop /\ ~InLoop') =>
       /\ pc' = "finally"
       /\ \/ stop' = "target" /\ PassEnds /\ Len(rows_list') = max_tweets
          \/ stop' = "closed" /\ ~alive /\ Len(rows_list') < max_tweets
  /\ (InLoop /\ alive /\ Len(rows_list') < max_tweets) => InLoop'

C20_LoopExits == []C20_Reasons /\ [][C20_Step]_vars

\* a pass over already seen bodies admitted nothing, and the loop went on to
\* scroll and to test its condition again
C20_Witness ==
  /\ pc = "check"
  /\ alive
  /\ scrolled
  /\ ev # NoEv
  /\ new_data = <<>>
  /\ Len(rows_list) = 1
  /\ max_tweets = 2
  /\ seen # {}

\* C21. Strict alternation of extraction and scroll: the loop moves from the
\* liveness check to the extraction pass, to the admission and capacity
\* check, to the scroll with its settle delay, and back; a scroll is called
\* only after the pass of its iteration has completed below the target, never
\* twice without a pass between, and the calls of _scroll_feed are as many as
\* the completed passes that did not reach the target.
C21_Counts ==
  /\ unscrolled \in {0, 1}
  /\ unscrolled = 1 <=> pc = "scroll"

C21_Step ==
  /\ (InLoop /\ pc' # pc) =>
       /\ pc = "check" => pc' \in {"scrape", "finally"}
       /\ pc = "scrape" => pc' = "extract"
       /\ pc = "extract" => pc' \in {"scroll", "finally"}
       /\ pc = "scroll" => pc' \in {"check", "finally"}
  /\ (ev' # ev /\ ev' # NoEv) =>
       /\ pc = "scroll" /\ pc' = "check"
       /\ unscrolled = 1 /\ unscrolled' = 0
       /\ ev'.sleep = 3
  /\ unscrolled' > unscrolled => PassEnds /\ stop' # "target"
  /\ unscrolled' < unscrolled => pc = "scroll"

C21_Alternation == []C21_Counts /\ [][C21_Step]_vars

\* a session of two passes and one scroll between them has reached its target
C21_Witness ==
  /\ pc = "done"
  /\ stop = "target"
  /\ max_tweets = 2
  /\ Len(rows_list) = 2
  /\ scrolled
  /\ unscrolled = 0

\* C29. Seen-set versus records: the bodies of rows_list are always among the
\* seen texts, and they are all the seen texts while rows_list is below the
\* target.  A pass that finds more new items than the remaining capacity
\* admits exactly the first of them in DOM order, records the bodies of all of
\* them as seen, and the surplus is never appended.
C29_Subset ==
  /\ Bodies(rows_list) \subseteq seen
  /\ Len(rows_list) < max_tweets => Bodies(rows_list) = seen

C29_Step ==
  /\ (PassEnds /\ alive) =>
       LET first == FirstSeenRows(tweets, seen)
           room == max_tweets - Len(rows_list)
       IN Len(first) > room =>
            /\ rows_list' = rows_list \o SubSeq(first, 1, room)
            /\ seen' = seen \cup Bodies(first)
            /\ Bodies(SubSeq(first, room + 1, Len(first))) \cap Bodies(rows_list') = {}
            /\ stop' = "target"
  /\ stop = "target" => rows_list' = rows_list /\ seen' = seen

C29_SeenVersusRecords == []C29_Subset /\ [][C29_Step]_vars

\* max_tweets = 1: a pass found the two new bodies "h" and "w", admitted "h"
\* and recorded both as seen
C29_Witness ==
  /\ pc = "finally"
  /\ stop = "target"
  /\ max_tweets = 1
  /\ Len(new_data) = 2
  /\ Bodies(rows_list) = {<<"h">>}
  /\ seen = {<<"h">>, <<"w">>}

\* ------------------------------------------------------------------ window closed during a pass
\* every field lookup of the article raises, its text having been read
Degraded(item) ==
  [item EXCEPT !.user = Raises, !.time = Raises, !.media = ImgsRaise,
               !.like = Raises, !.retweet = Raises]

\* What the item loop reads when the window is closed while it runs: the
\* first cut articles are read, the next one loses its field lookups when the
\* window goes after its text was read, and every later lookup raises.
ReadableUntil(ts, cut, inside) ==
  [i \in 1..Len(ts) |->
     IF i <= cut THEN ts[i]
     ELSE IF i = cut + 1 /\ inside THEN Degraded(ts[i])
     ELSE [ts[i] EXCEPT !.el = "stale"]]

\* variant: the exception of the closed window leaves scrape_visible_tweets
ExtractInterruptedRaises ==
  /\ pc = "extract"
  /\ alive
  /\ tweets # <<>>
  /\ alive' = FALSE
  /\ pc' = "finally"
  /\ stop' = "closed"
  /\ new_data' = <<>>
  /\ UNCHANGED <<max_tweets, pd, tweets, seen, rows_list, scrollable, to_excel,
                 sink, quits, result, ev, scrolled, resolves, quit_error,
                 retval, unscrolled, call, mainvars, geminivars>>

\* the pass of Extract, the operator closing the window while the item loop runs
ExtractInterrupted ==
  /\ pc = "extract"
  /\ alive
  /\ alive' = FALSE
  /\ \E cut \in 0..(Len(tweets) - 1), inside \in BOOLEAN :
       LET r == scrape_visible_tweets(ReadableUntil(tweets, cut, inside), seen)
           rows == Admit(rows_list, r.new_tweets, max_tweets)
       IN /\ seen' = r.seen_texts
          /\ new_data' = r.new_tweets
          /\ rows_list' = rows
          /\ IF TargetReached(rows, max_tweets)
             THEN pc' = "finally" /\ stop' = "target" /\ unscrolled' = unscrolled
             ELSE pc' = "scroll" /\ stop' = stop /\ unscrolled' = unscrolled + 1
  /\ UNCHANGED <<max_tweets, pd, tweets, scrollable, to_excel, sink,
                 quits, result, ev, scrolled, resolves, quit_error, retval,
                 call, mainvars, geminivars>>

CancelNext ==
  \/ Next
  \/ ExtractInterrupted

\* a session with pandas installed and the largest target
CancelInit == Init /\ pd /\ max_tweets = MaxTarget

CancelSpec == CancelInit /\ [][CancelNext]_vars

Texts(rows) == [i \in 1..Len(rows) |-> rows[i].text]

\* C30. Reactive cancellation: a pass is entered only after a liveness check
\* that succeeded; a pass never ends in an error; when the window is closed
\* during a pass, the pass returns the records of a (possibly empty) leading
\* part of the new items of the snapshot, admitted like any other batch; the closed
\* window stops the loop only through the following scroll call or the next
\* liveness check.
C30_Step ==
  /\ (pc' = "scrape" /\ pc # "scrape") => pc = "check" /\ alive
  /\ PassEnds =>
       /\ pc' \in {"scroll", "finally"}
       /\ stop' \in {"none", "target"}
       /\ result' = "running"
       /\ rows_list' = Admit(rows_list, new_data', max_tweets)
  /\ (PassEnds /\ alive /\ ~alive') =>
       IsPrefix(Texts(new_data'), Texts(FirstSeenRows(tweets, seen)))
  /\ (stop' = "closed" /\ stop # "closed") => pc \in {"scroll", "check"} /\ ~alive

C30_ReactiveCancellation == [][C30_Step]_vars

\* the window was closed during a pass over two new bodies after the first
\* was read: the pass returned the first, it was admitted, and the loop is
\* about to scroll
C30_Witness ==
  /\ pc = "scroll"
  /\ ~alive
  /\ max_tweets = 2
  /\ Len(tweets) = 2
  /\ Body(tweets[1]) = <<"h">> /\ NonBlank(tweets[1])
  /\ Body(tweets[2]) = <<"w">> /\ NonBlank(tweets[2])
  /\ Texts(new_data) = <<(<<"h">>)>>
  /\ rows_list = new_data
  /\ stop = "none"

\* ------------------------------------------------------------------ one pass over chosen articles
\* the first pass of a session over one of the given batches
FirstPassOver(batches) ==
  /\ pc = "extract"
  /\ tweets \in batches
  /\ max_tweets = MaxTarget
  /\ pd = TRUE
  /\ alive = TRUE
  /\ seen = {}
  /\ rows_list = <<>>
  /\ new_data = <<>>
  /\ scrollable = "element"
  /\ stop = "none"
  /\ to_excel = <<>>
  /\ sink = NoFile
  /\ quits = 0
  /\ result = "running"
  /\ ev = NoEv
  /\ scrolled = FALSE
  /\ resolves = 1
  /\ quit_error = FALSE
  /\ retval = <<>>
  /\ unscrolled = 0
  /\ mpc = "none"
  /\ exit_code = 0
  /\ failed = "none"
  /\ call = NoCall
  /\ ac = AcIdle
  /\ at = AtIdle

\* ------------------------------------------------------------------ _get_tweet_media_links
MaxMedia == 2

\* what img.get_attribute("src") and vid.get_attribute("poster") can give:
\* "", None, a URL, an exception
MediaAttrs == {<<>>, None, <<"i">>, <<"j">>, Stale}

AttrLists == UNION { [1..n -> MediaAttrs] : n \in 0..MaxMedia }

MediaCases ==
  { Media(ist, imgs, vst, posters) :
      ist \in {"ok", "raises"}, imgs \in AttrLists,
      vst \in {"ok", "raises"}, posters \in AttrLists }

MediaItems ==
  { [Article("ok", <<"h">>, UserName(<<"A">>)) EXCEPT !.media = m] : m \in MediaCases }

MediaInit == FirstPassOver({ <<x>> : x \in MediaItems })

MediaNext == Extract

MediaSpec == MediaInit /\ [][MediaNext]_vars

IsUrl(a) == a # <<>> /\ a # None /\ a # Stale

NoLookupRaises(m) ==
  m.ist = "ok" /\ m.vst = "ok" /\ ~Raised(m.imgs) /\ ~Raised(m.posters)

\* the i-th image source was read
ImgRead(m, i) == m.ist = "ok" /\ \A j \in 1..i : m.imgs[j] # Stale

\* the i-th poster was read
PosterRead(m, i) ==
  /\ m.ist = "ok" /\ ~Raised(m.imgs) /\ m.vst = "ok"
  /\ \A j \in 1..i : m.posters[j] # Stale

SomeCollected(m) ==
  \/ \E i \in 1..Len(m.imgs) : ImgRead(m, i) /\ IsUrl(m.imgs[i])
  \/ \E i \in 1..Len(m.posters) : PosterRead(m, i) /\ IsUrl(m.posters[i])

AllReferences(m) ==
  LET srcs == SelectSeq(m.imgs, IsUrl)
      posters == SelectSeq(m.posters, IsUrl)
  IN srcs \o [i \in 1..Len(posters) |-> PosterPrefix \o posters[i]]

MaxLinks == 2

\* hrefs of the links of a User-Name block, each with whether it contains
\* "/status/" and its last path segment once trailing slashes are removed
AuthorLinks ==
  { [href |-> <<"/", "A">>, status |-> FALSE, segment |-> <<"A">>],
    [href |-> <<"/", "B", "/">>, status |-> FALSE, segment |-> <<"B">>],
    [href |-> <<"/", "A", "/", "s", "t", "a", "t", "u", "s", "/", "1">>,
       status |-> TRUE, segment |-> <<"1">>],
    [href |-> <<"/", "s", "t", "a", "t", "u", "s", "/", "B">>,
       status |-> TRUE, segment |-> <<"B">>],
    [href |-> <<"/", "s", "t", "a", "t", "u", "s">>,
       status |-> FALSE, segment |-> <<"s", "t", "a", "t", "u", "s">>],
    [href |-> <<"/", "x">>, status |-> FALSE, segment |-> <<"x">>],
    [href |-> <<"/", "X">>, status |-> FALSE, segment |-> <<"X">>],
    [href |-> <<"/", "i", "/">>, status |-> FALSE, segment |-> <<"i">>],
    [href |-> <<"/", "i", "n", "t", "e", "n", "t">>, status |-> FALSE,
       segment |-> <<"i", "n", "t", "e", "n", "t">>],
    [href |-> <<"x", ".", "c", "o", "m">>, status |-> FALSE,
       segment |-> <<"x", ".", "c", "o", "m">>],
    [href |-> <<"/", "/">>, status |-> FALSE, segment |-> <<>>],
    [href |-> <<>>, status |-> FALSE, segment |-> <<>>],
    [href |-> None, status |-> FALSE, segment |-> <<>>],
    [href |-> Stale, status |-> FALSE, segment |-> <<>>] }

AuthorHrefs == { l.href : l \in AuthorLinks }

\* what the lookup of the User-Name block and of its links can give
UserBlocks ==
  { Found(links) : links \in UNION { [1..n -> AuthorHrefs] : n \in 0..MaxLinks } }
    \cup {Absent, Raises}

AuthorItems == { Article("ok", <<"h">>, u) : u \in UserBlocks }

AuthorInit == FirstPassOver({ <<x>> : x \in AuthorItems })

AuthorNext == Extract

AuthorSpec == AuthorInit /\ [][AuthorNext]_vars

LinkOf(href) == CHOOSE l \in AuthorLinks : l.href = href

\* the four reserved segments as written
ReservedExact ==
  { <<"c", "o", "m">>, <<"x">>, <<"i">>, <<"i", "n", "t", "e", "n", "t">> }

\* the reserved segments in the letter cases the hrefs of the feed use
ReservedAnyCase == ReservedExact \cup { <<"X">>, <<"I">> }

\* the link is not skipped and its segment can be a handle
Qualifies(href, reserved) ==
  LET l == LinkOf(href)
  IN ~l.status /\ l.segment # <<>> /\ l.segment \notin reserved

\* the k-th link is the first that qualifies, and no lookup raised before it
FirstQualifying(links, k, reserved) ==
  /\ Qualifies(links[k], reserved)
  /\ \A j \in 1..(k - 1) : ~Qualifies(links[j], reserved) /\ links[j] # Stale

AuthorResolved(reserved) ==
  pc # "extract" =>
    /\ Len(new_data) = 1
    /\ LET u == tweets[1].user
           account == new_data[1].account
       IN /\ u.st # "ok" => account = <<>>
          /\ u.st = "ok" =>
               /\ \A k \in 1..Len(u.v) :
                    FirstQualifying(u.v, k, reserved) =>
                      account = <<"@">> \o LinkOf(u.v[k]).segment
               /\ (\A k \in 1..Len(u.v) : ~FirstQualifying(u.v, k, reserved)) =>
                    account = <<>>

\* C23 (as stated). Author resolution: the account of the record is "@" plus
\* the last path segment of the first link of the User-Name block, in order,
\* that has no "/status/" in its href and whose segment is non-empty and not
\* one of com, x, i, intent; it is the empty string when the block is absent,
\* no link qualifies, or a lookup raises first.
C23_ExactSegments == AuthorResolved(ReservedExact)

\* C23 (amended). The same, the segment being compared with com, x, i,
\* intent without regard to letter case.
C23_AuthorResolution == AuthorResolved(ReservedAnyCase)

\* the profile link of the account X is passed over for that of B
C23_CaseWitness ==
  /\ pc # "extract"
  /\ tweets[1].user = Found(<<(<<"/", "X">>), (<<"/", "B", "/">>)>>)
  /\ new_data[1].account = <<"@", "B">>

\* a status permalink of A before the profile link of B
C23_Witness ==
  /\ pc # "extract"
  /\ tweets[1].user =
       Found(<<(<<"/", "A", "/", "s", "t", "a", "t", "u", "s", "/", "1">>),
               (<<"/", "B", "/">>)>>)
  /\ new_data[1].account = <<"@", "B">>

\* ------------------------------------------------------------------ _get_tweet_engagement
MaxLabel == 3

LabelChars == {"5", ",", ".", "K", "L", " "}

\* every aria-label of at most MaxLabel characters
AriaLabels == UNION { [1..n -> LabelChars] : n \in 0..MaxLabel }

EngagementLookups == { Found(l) : l \in AriaLabels } \cup {NoAttr, Absent, Raises}

EngagementItems ==
  { [Article("ok", <<"h">>, UserName(<<"A">>)) EXCEPT !.like = l, !.retweet = r] :
      l \in EngagementLookups, r \in {Found(RetweetLabel), Raises} }

EngagementInit == FirstPassOver({ <<x>> : x \in EngagementItems })

EngagementNext == Extract

EngagementSpec == EngagementInit /\ [][EngagementNext]_vars

Digits == {"0", "1", "2", "3", "4", "5", "6", "7", "8", "9"}

\* the label holds a numeric token
HasNumber(label) == \E i \in 1..Len(label) : label[i] \in Digits

\* digits with optional commas and dots and one optional suffix
IsMagnitude(s) ==
  /\ HasNumber(s)
  /\ \A i \in 1..Len(s) :
       s[i] \in Digits \cup {",", "."} \/ (i = Len(s) /\ s[i] \in {"K", "M", "B"})

\* C24. Engagement counts: the likes of the record are the magnitude as it
\* stands in the aria-label of the like element (digits with optional commas
\* and dots and one K/M/B suffix); they are the empty string when the element
\* is absent, the label is missing or holds no numeric token, or the lookup
\* raises; the record is always produced.
C24_EngagementCounts ==
  pc # "extract" =>
    /\ Len(new_data) = 1
    /\ LET el == tweets[1].like
           likes == new_data[1].likes
       IN IF el.st = "ok" /\ HasNumber(el.v)
          THEN IsMagnitude(likes) /\ Contains(el.v, likes)
          ELSE likes = <<>>

\* ------------------------------------------------------------------ _scroll_feed
MaxAmount == 30

\* the amounts a caller can pass: None or a number of pixels
Amounts == {NoAmount} \cup { <<n>> : n \in 0..MaxAmount }

\* the scroll targets a caller can pass: a resolved element or None
ScrollTargets == {"element", "None"}

\* one call of _scroll_feed with any arguments, on an open window
ScrollCall ==
  /\ \E target \in ScrollTargets, amount \in Amounts, h \in Heights :
       /\ call' = [scrollable |-> target, amount |-> amount]
       /\ ev' = [scroll |-> scroll_feed(target, amount, h), sleep |-> 0]
  /\ UNCHANGED <<pc, max_tweets, pd, alive, tweets, seen, rows_list, new_data,
                 scrollable, stop, to_excel, sink, quits, result, scrolled,
                 resolves, quit_error, retval, unscrolled, mainvars, geminivars>>

ScrollNext == ScrollCall

ScrollSpec == Init /\ [][ScrollNext]_vars

\* the command of the last call is the one its arguments select
C25_Command ==
  call # NoCall =>
    /\ ev.sleep = 0
    /\ ev.scroll.on = (IF call.scrollable = "None" THEN "window" ELSE "element")
    /\ call.amount = NoAmount => ev.scroll.mode = "bottom"
    /\ \A n \in 0..MaxAmount :
         call.amount = <<n>> => ev.scroll.mode = "by" /\ ev.scroll.amount = n

\* a call changes nothing but the command it issues
C25_Step ==
  UNCHANGED <<pc, alive, tweets, seen, rows_list, scrollable, scrolled, resolves>>

\* C25. _scroll_feed: each call issues one scroll command and no wait; the
\* command scrolls the element when a scroll target was resolved and the
\* whole window when the target is None; it advances by the amount when one
\* is given (0 included) and jumps to the bottom when the amount is None; the
\* command depends on the arguments of the call alone.
C25_ScrollModes == []C25_Command /\ [][C25_Step]_vars

\* a call with the amount 0 and no target scrolled the window by 0 pixels
C25_Witness ==
  /\ call = [scrollable |-> "None", amount |-> <<0>>]
  /\ ev.scroll.on = "window"
  /\ ev.scroll.mode = "by"
  /\ ev.scroll.amount = 0

\* ------------------------------------------------------------------ xscrapper.main (legacy scraper)
\* viewport = 700, and `or 700`
LegacyViewport == 700

\* if step <= 0: step = 500
LegacyFallbackStep == 500

\* time.sleep(2.5), in tenths of a second
LegacySettleTenths == 25

\* step = int(viewport * 0.7); the viewport is the clientHeight of the target,
\* 700 when that is 0 or cannot be read
legacy_step(height) ==
  LET viewport == IF height = 0 THEN LegacyViewport ELSE height
      step == (7 * viewport) \div 10
  IN IF step <= 0 THEN LegacyFallbackStep ELSE step

\* the dictionary of the legacy pass, by its text; account, likes, retweets
\* and impressions are strings of helpers that never raise
LegacyRows(rows) == [i \in 1..Len(rows) |-> [text |-> rows[i].text]]

legacy_cols == <<"Tweet text">>

\* the file save_tweets_to_excel writes
LegacyFile(rows) ==
  [written |-> TRUE, path |-> "x_tweets_<timestamp>.xlsx",
   columns |-> legacy_cols,
   table |-> [i \in 1..Len(rows) |-> <<rows[i].text>>]]

\* the variables the legacy script has no counterpart of
legacyfixed ==
  <<max_tweets, scrolled, resolves, retval, unscrolled, quit_error, mainvars,
    geminivars>>

LegacyInLoop == pc \in {"l_scrape", "l_extract", "l_scroll"}

LegacyInit ==
  /\ pc = "l_setup"
  /\ max_tweets = MaxTarget
  /\ pd \in BOOLEAN
  /\ alive = FALSE
  /\ tweets = <<>>
  /\ seen = {}
  /\ rows_list = <<>>
  /\ new_data = <<>>
  /\ scrollable = "unset"
  /\ stop = "none"
  /\ to_excel = <<>>
  /\ sink = NoFile
  /\ quits = 0
  /\ result = "running"
  /\ ev = NoEv
  /\ scrolled = FALSE
  /\ resolves = 0
  /\ quit_error = FALSE
  /\ retval = <<>>
  /\ unscrolled = 0
  /\ mpc = "none"
  /\ exit_code = 0
  /\ failed = "none"
  /\ call = NoCall
  /\ ac = AcIdle
  /\ at = AtIdle

\* the operator closes the browser window
LegacyClose ==
  /\ alive
  /\ pc \notin {"l_setup", "done"}
  /\ alive' = FALSE
  /\ UNCHANGED <<pc, pd, tweets, seen, rows_list, new_data, scrollable, stop,
                 to_excel, sink, quits, result, ev, call, legacyfixed>>

\* a statement of the try block raised: control goes to the except clause
LegacyRaise(reason) ==
  /\ pc' = "l_except"
  /\ stop' = reason

\* driver = setup_chrome(); rows_list = [], before the try block
LegacySetup ==
  /\ pc = "l_setup"
  /\ \E started \in BOOLEAN :
       IF started
       THEN alive' = TRUE /\ pc' = "l_load" /\ stop' = stop /\ result' = result
       ELSE alive' = alive /\ pc' = "done" /\ stop' = "setup" /\ result' = "raised"
  /\ UNCHANGED <<pd, tweets, seen, rows_list, new_data, scrollable,
                 to_excel, sink, quits, ev, call, legacyfixed>>

\* load_x_trending(driver); scrape_global_trending(driver)
LegacyLoad ==
  /\ pc = "l_load"
  /\ IF alive
     THEN \E loaded \in BOOLEAN :
            IF loaded THEN pc' = "l_click" /\ stop' = stop
            ELSE LegacyRaise("load")
     ELSE LegacyRaise("load")
  /\ UNCHANGED <<pd, alive, tweets, seen, rows_list, new_data, scrollable,
                 to_excel, sink, quits, result, ev, call, legacyfixed>>

\* click_news_topic(driver); time.sleep(90)
LegacyClickNews ==
  /\ pc = "l_click"
  /\ IF alive
     THEN \E clicked \in BOOLEAN :
            IF clicked THEN pc' = "l_resolve" /\ stop' = stop
            ELSE LegacyRaise("news")
     ELSE LegacyRaise("news")
  /\ UNCHANGED <<pd, alive, tweets, seen, rows_list, new_data, scrollable,
                 to_excel, sink, quits, result, ev, call, legacyfixed>>

\* scrape_and_scroll_loop up to `while True`: the scroll target (the
\* container of the first article, else a scrollable <main>, else None) and
\* the step; find_elements raises on a closed window
LegacyResolve ==
  /\ pc = "l_resolve"
  /\ IF alive
     THEN /\ \E d \in Doms, main \in BOOLEAN, h \in Heights \cup {0} :
               LET target == IF d # <<>> \/ main THEN "element" ELSE "None"
               IN /\ scrollable' = target
                  /\ call' = [scrollable |-> target,
                              amount |-> <<legacy_step(IF target = "element"
                                                       THEN h ELSE 0)>>]
          /\ pc' = "l_scrape"
          /\ stop' = stop
     ELSE /\ LegacyRaise("closed")
          /\ UNCHANGED <<scrollable, call>>
  /\ UNCHANGED <<pd, alive, tweets, seen, rows_list, new_data,
                 to_excel, sink, quits, result, ev, legacyfixed>>

\* tweets = driver.find_elements(...) of scrape_visible_tweets
LegacySnapshot ==
  /\ pc = "l_scrape"
  /\ IF alive
     THEN \E d \in Doms : tweets' = d
     ELSE tweets' = <<>>
  /\ pc' = "l_extract"
  /\ UNCHANGED <<pd, alive, seen, rows_list, new_data, scrollable, stop,
                 to_excel, sink, quits, result, ev, call, legacyfixed>>

\* the item loop of scrape_visible_tweets and `rows_list.append(row)` for
\* every new row
LegacyExtract ==
  /\ pc = "l_extract"
  /\ LET r == scrape_visible_tweets(Readable(tweets), seen)
         new_tweets == LegacyRows(r.new_tweets)
     IN /\ seen' = r.seen_texts
        /\ new_data' = new_tweets
        /\ rows_list' = rows_list \o new_tweets
  /\ pc' = "l_scroll"
  /\ UNCHANGED <<pd, alive, tweets, scrollable, stop, to_excel, sink, quits,
                 result, ev, call, legacyfixed>>

\* _scroll_feed(driver, scrollable, amount=step); time.sleep(2.5)
LegacyScroll ==
  /\ pc = "l_scroll"
  /\ IF alive
     THEN /\ pc' = "l_scrape"
          /\ stop' = stop
          /\ \E h \in Heights :
               ev' = [scroll |-> scroll_feed(scrollable, call.amount, h),
                      sleep  |-> LegacySettleTenths]
     ELSE /\ LegacyRaise("closed")
          /\ ev' = ev
  /\ tweets' = <<>>
  /\ UNCHANGED <<pd, alive, seen, rows_list, new_data, scrollable,
                 to_excel, sink, quits, result, call, legacyfixed>>

\* except Exception as e: print(f"Stopped: {e}")
LegacyExcept ==
  /\ pc = "l_except"
  /\ pc' = "l_finally"
  /\ UNCHANGED <<pd, alive, tweets, seen, rows_list, new_data, scrollable,
                 stop, to_excel, sink, quits, result, ev, call, legacyfixed>>

\* finally: save_tweets_to_excel(rows_list), outside the try that guards quit
LegacySave ==
  /\ pc = "l_finally"
  /\ IF rows_list # <<>> /\ pd
     THEN /\ to_excel' = Append(to_excel, rows_list)
          /\ \E written \in BOOLEAN :
               IF written
               THEN sink' = LegacyFile(rows_list) /\ pc' = "l_quit"
                    /\ result' = result
               ELSE sink' = sink /\ pc' = "done" /\ result' = "raised"
     ELSE /\ pc' = "l_quit"
          /\ UNCHANGED <<to_excel, sink, result>>
  /\ UNCHANGED <<pd, alive, tweets, seen, rows_list, new_data, scrollable,
                 stop, quits, ev, call, legacyfixed>>

\* try: driver.quit() except Exception: pass
LegacyQuit ==
  /\ pc = "l_quit"
  /\ quits' = quits + 1
  /\ alive' = FALSE
  /\ result' = "returned"
  /\ pc' = "done"
  /\ UNCHANGED <<pd, tweets, seen, rows_list, new_data, scrollable, stop,
                 to_excel, sink, ev, call, legacyfixed>>

LegacyNext ==
  \/ LegacyClose
  \/ LegacySetup
  \/ LegacyLoad
  \/ LegacyClickNews
  \/ LegacyResolve
  \/ LegacySnapshot
  \/ LegacyExtract
  \/ LegacyScroll
  \/ LegacyExcept
  \/ LegacySave
  \/ LegacyQuit

LegacySpec == LegacyInit /\ [][LegacyNext]_vars

\* the loop is left only by a raising driver call, into the except clause
C26_LoopLeft ==
  (LegacyInLoop /\ pc' # pc /\ pc' \notin {"l_scrape", "l_extract", "l_scroll"}) =>
    pc = "l_scroll" /\ ~alive /\ pc' = "l_except" /\ stop' = "closed"

\* after such a stop the script ends with every row saved once, in admission
\* order, and the driver quit
C26_Saved ==
  (pc = "done" /\ stop = "closed" /\ pd /\ rows_list # <<>>) =>
    /\ to_excel = <<rows_list>>
    /\ sink = LegacyFile(rows_list)
    /\ quits = 1
    /\ result = "returned"

\* C26. Legacy scraper: scrape_and_scroll_loop never returns normally and is
\* left only when a driver call raises on the closed window; main then
\* reaches its except clause (which prints the reason), saves once every row
\* of rows_list in admission order, quits the driver, and returns without an
\* exception. (Stated for runs with pandas imported and at least one row.)
C26_LegacyStop == []C26_Saved /\ [][C26_LoopLeft]_vars

\* ------------------------------------------------------------------ analyze_chunk
MaxRetries == 2

\* len(text_models)
NumModels == 3

\* the number of seconds a message "retry in <n>s" states
StatedDelay == 5

\* What str(e) of an exception of generate_content answers to the tests of the
\* handler: "404" or "not found" in it, "429", "RESOURCE_EXHAUSTED" or "QUOTA"
\* in it, _is_daily_limit(it), and the seconds of "retry in <n>s" (<<>> when
\* the text has no such part).  A daily limit and a retry delay are stated
\* by 429 errors only.
ApiErrors ==
  { e \in [ok : {FALSE}, notfound : BOOLEAN, quota : BOOLEAN, daily : BOOLEAN,
            delay : {<<>>, <<StatedDelay>>}] :
      (e.daily \/ e.delay # <<>>) => e.quota }

\* generate_content returned a response
Response ==
  [ok |-> TRUE, notfound |-> FALSE, quota |-> FALSE, daily |-> FALSE,
   delay |-> <<>>]

ApiOutcomes == ApiErrors \cup {Response}

\* _extract_retry_delay: float(m.group(1)) + 1, or None (<<>>)
extract_retry_delay(error) ==
  IF error.delay = <<>> THEN <<>> ELSE <<error.delay[1] + 1>>

\* RuntimeError(f"Daily quota limit exceeded (...). {error_str}"): the text of
\* the error is part of the message
DailyError(error) ==
  [type |-> "RuntimeError", text |-> [error EXCEPT !.daily = TRUE]]

\* RuntimeError(f"None of {text_models} are available after ...")
NoneAvailable ==
  [type |-> "RuntimeError",
   text |-> [ok |-> FALSE, notfound |-> FALSE, quota |-> FALSE,
             daily |-> FALSE, delay |-> <<>>]]

\* raise: the exception of generate_content as it is
Reraised(error) == [type |-> "ApiError", text |-> error]

\* analyze_chunk is entered
AcStart(max_retries) ==
  [pc |-> "call", max_retries |-> max_retries, attempt |-> 0, model |-> 1,
   calls |-> 0, slept |-> <<>>, last |-> <<>>, exc |-> <<>>]

\* the handler raises
AcRaise(a, exception) == [a EXCEPT !.pc = "raised", !.exc = <<exception>>]

\* `continue` of the loop over the models: the next model, or the next attempt
\* when the models are used up (response is None), or the final RuntimeError
AcContinue(a) ==
  IF a.model < NumModels THEN [a EXCEPT !.model = a.model + 1]
  ELSE IF a.attempt + 1 < a.max_retries
       THEN [a EXCEPT !.attempt = a.attempt + 1, !.model = 1]
       ELSE AcRaise(a, NoneAvailable)

\* the try/except around one generate_content call whose outcome is o
AcHandle(a, o) ==
  IF o.ok THEN [a EXCEPT !.pc = "returned"]
  ELSE IF o.notfound THEN AcContinue(a)
  ELSE IF o.quota
       THEN IF o.daily THEN AcRaise(a, DailyError(o))
            ELSE LET delay == extract_retry_delay(o)
                 IN IF delay # <<>> /\ delay # <<0>> /\ a.attempt < a.max_retries - 1
                    THEN AcContinue([a EXCEPT !.slept = Append(a.slept, delay[1])])
                    ELSE AcRaise(a, Reraised(o))
       ELSE AcRaise(a, Reraised(o))

\* one call of client.models.generate_content and what the handler does with
\* its outcome
AcCall(a, o) == AcHandle([a EXCEPT !.calls = a.calls + 1, !.last = <<o>>], o)

GenerateContent ==
  /\ ac.pc = "call"
  /\ \E o \in ApiOutcomes : ac' = AcCall(ac, o)
  /\ UNCHANGED <<scrapervars, mainvars, at>>

RetryInit ==
  /\ Init
  /\ pd /\ max_tweets = MaxTarget

RetryStart ==
  /\ ac.pc = "idle"
  /\ \E n \in 1..MaxRetries : ac' = AcStart(n)
  /\ UNCHANGED <<scrapervars, mainvars, at>>

RetryNext ==
  \/ RetryStart
  \/ GenerateContent

RetrySpec == RetryInit /\ [][RetryNext]_vars

\* a 429 error that is no daily limit
IsRateLimit(e) == ~e.ok /\ e.quota /\ ~e.daily

IsDailyQuota(e) == ~e.ok /\ e.quota /\ e.daily

\* a 404 / not found error that is no 429 error
IsNotFound(e) == ~e.ok /\ e.notfound /\ ~e.quota

\* the step is a call of generate_content with the outcome e
Called(e) == ac.pc = "call" /\ ac'.pc # "idle" /\ ac'.last = <<e>>

C27_Calls ==
  ac.pc # "idle" => ac.calls <= ac.max_retries * NumModels

C27_Step ==
  \A e \in ApiErrors :
    Called(e) =>
      /\ (IsRateLimit(e) /\ e.delay # <<>> /\ ac.attempt < ac.max_retries - 1) =>
           /\ ac'.slept = Append(ac.slept, e.delay[1] + 1)
           /\ ac'.pc = "call"
      /\ IsDailyQuota(e) =>
           /\ ac'.pc = "raised"
           /\ ac'.exc[1].type = "RuntimeError"
           /\ ac'.slept = ac.slept
      /\ (IsRateLimit(e) /\ (e.delay = <<>> \/ ac.attempt = ac.max_retries - 1)) =>
           /\ ac'.pc = "raised"
           /\ ac'.exc = <<Reraised(e)>>
           /\ ac'.slept = ac.slept
      /\ IsNotFound(e) =>
           /\ ac'.slept = ac.slept
           /\ ac'.pc = "call" =>
                ac'.model = (IF ac.model < NumModels THEN ac.model + 1 ELSE 1)

\* no call follows a raise or a return
C27_Final ==
  ac.pc \in {"raised", "returned"} => ac' = ac

\* C27. Retry policy of analyze_chunk: a 429 rate-limit error with a stated
\* retry delay on an attempt that is not the last is waited for (delay plus one
\* second) and followed by another request; a daily-quota error raises
\* RuntimeError with no further call; a rate-limit error on the last attempt
\* or without a stated delay is re-raised; a 404 / not found error moves on to
\* the next model without waiting; the calls of generate_content never exceed
\* max_retries times the number of models.
C27_RetryPolicy == []C27_Calls /\ [][C27_Step /\ C27_Final]_vars

\* ------------------------------------------------------------------ analyze_trends_and_generate_prompts
MaxTweets == 3

MaxChunk == 2

\* max_retries=2 of analyze_chunk, which the chunk loop does not pass
DefaultRetries == 2

\* time.sleep(1.0) after a chunk that was analysed
ChunkPause == 1

\* tweets_list[i:i + chunk_size] for i in range(0, total_tweets, chunk_size)
RECURSIVE ChunksFrom(_, _, _)
ChunksFrom(tweets_list, i, chunk_size) ==
  IF i >= Len(tweets_list) THEN <<>>
  ELSE LET last == IF i + chunk_size < Len(tweets_list)
                   THEN i + chunk_size ELSE Len(tweets_list)
       IN <<SubSeq(tweets_list, i + 1, last)>>
            \o ChunksFrom(tweets_list, i + chunk_size, chunk_size)

\* the function is entered with n tweets
AtStart(n, chunk_size) ==
  LET tweets_list == [k \in 1..n |-> k]
      chunks == ChunksFrom(tweets_list, 0, chunk_size)
  IN [pc |-> IF n = 0 THEN "raised" ELSE "submit",
      tweets_list |-> tweets_list, chunk_size |-> chunk_size,
      chunks |-> chunks, i |-> 1, attempt |-> 1,
      chunk_analyses |-> <<>>,
      submitted |-> [c \in 1..Len(chunks) |-> 0],
      slept |-> <<>>,
      exc |-> IF n = 0 THEN <<"ValueError">> ELSE <<>>]

\* after the loop: `if not chunk_analyses: raise RuntimeError(...)`
AtAfterLoop(a) ==
  IF a.chunk_analyses = <<>>
  THEN [a EXCEPT !.pc = "raised", !.exc = <<"RuntimeError">>]
  ELSE [a EXCEPT !.pc = "combine"]

\* the next iteration of the loop over the chunks
AtContinue(a) ==
  IF a.i < Len(a.chunks)
  THEN [a EXCEPT !.i = a.i + 1, !.attempt = 1, !.pc = "submit"]
  ELSE AtAfterLoop(a)

\* analyze_chunk returned: the analysis is appended, and the pause follows
AtOnAnalysis(a) ==
  AtContinue([a EXCEPT !.chunk_analyses = Append(a.chunk_analyses, a.i),
                       !.slept = Append(a.slept, ChunkPause)])

\* variant: a daily limit skips the chunk like any other error
AtOnErrorSkipsDaily(a, text) ==
  IF a.attempt = 1
  THEN IF text.quota /\ ~text.daily
       THEN LET delay == extract_retry_delay(text)
            IN IF delay # <<>> /\ delay # <<0>>
               THEN [a EXCEPT !.slept = Append(a.slept, delay[1]),
                              !.attempt = 2, !.pc = "submit"]
               ELSE AtContinue(a)
       ELSE AtContinue(a)
  ELSE AtContinue(a)

\* the except clauses of the loop: text is str(e) of the exception of
\* analyze_chunk, on the first submission of the chunk or on its retry
AtOnError(a, text) ==
  IF a.attempt = 1
  THEN IF text.quota
       THEN IF text.daily
            THEN IF a.chunk_analyses # <<>> THEN AtAfterLoop(a)
                 ELSE [a EXCEPT !.pc = "raised", !.exc = <<"RuntimeError">>]
            ELSE LET delay == extract_retry_delay(text)
                 IN IF delay # <<>> /\ delay # <<0>>
                    THEN [a EXCEPT !.slept = Append(a.slept, delay[1]),
                                   !.attempt = 2, !.pc = "submit"]
                    ELSE AtContinue(a)
       ELSE AtContinue(a)
  ELSE IF text.daily THEN AtAfterLoop(a) ELSE AtContinue(a)

\* analyze_trends_and_generate_prompts(client, tweets_list, chunk_size)
AnalyzeTrends ==
  /\ at.pc = "idle"
  /\ \E n \in 0..MaxTweets, chunk_size \in 1..MaxChunk : at' = AtStart(n, chunk_size)
  /\ UNCHANGED <<scrapervars, mainvars, ac>>

\* analysis = analyze_chunk(client, chunk, i, num_chunks): the call
SubmitChunk ==
  /\ at.pc = "submit"
  /\ ac' = AcStart(DefaultRetries)
  /\ at' = [at EXCEPT !.pc = "wait",
                      !.submitted[at.i] = at.submitted[at.i] + 1]
  /\ UNCHANGED <<scrapervars, mainvars>>

\* analyze_chunk returned its analysis
ChunkAnalysed ==
  /\ at.pc = "wait"
  /\ ac.pc = "returned"
  /\ at' = AtOnAnalysis(at)
  /\ ac' = AcIdle
  /\ UNCHANGED <<scrapervars, mainvars>>

\* analyze_chunk raised
ChunkFailed ==
  /\ at.pc = "wait"
  /\ ac.pc = "raised"
  /\ at' = AtOnError(at, ac.exc[1].text)
  /\ ac' = AcIdle
  /\ UNCHANGED <<scrapervars, mainvars>>

ChunkInit == RetryInit

ChunkNext ==
  \/ AnalyzeTrends
  \/ SubmitChunk
  \/ GenerateContent
  \/ ChunkAnalysed
  \/ ChunkFailed

ChunkSpec == ChunkInit /\ [][ChunkNext]_vars

RECURSIVE Concat(_)
Concat(seqs) == IF seqs = <<>> THEN <<>> ELSE Head(seqs) \o Concat(Tail(seqs))

\* the chunks are consecutive slices that make up the list, none longer than
\* chunk_size; the analyses are in chunk order; no chunk is submitted more
\* than twice
C28_Chunks ==
  at.pc # "idle" =>
    /\ Concat(at.chunks) = at.tweets_list
    /\ \A c \in 1..Len(at.chunks) :
         /\ Len(at.chunks[c]) \in 1..at.chunk_size
         /\ at.submitted[c] <= 2
    /\ \A j, k \in 1..Len(at.chunk_analyses) :
         j < k => at.chunk_analyses[j] < at.chunk_analyses[k]
    /\ \A j \in 1..Len(at.chunk_analyses) : at.submitted[at.chunk_analyses[j]] >= 1

\* analyze_chunk has just raised a daily-quota error to the loop
DailyRaised ==
  at.pc = "wait" /\ ac.pc = "raised" /\ ac.exc[1].text.quota /\ ac.exc[1].text.daily

\* analyze_chunk has just raised another error to the loop
OtherRaised ==
  at.pc = "wait" /\ ac.pc = "raised" /\ ~(ac.exc[1].text.quota /\ ac.exc[1].text.daily)

C28_Step ==
  /\ (DailyRaised /\ at' # at) =>
       /\ at'.chunk_analyses = at.chunk_analyses
       /\ at'.submitted = at.submitted
       /\ IF at.chunk_analyses # <<>>
          THEN at'.pc = "combine"
          ELSE at'.pc = "raised" /\ at'.exc = <<"RuntimeError">>
  /\ (OtherRaised /\ at' # at) =>
       /\ at'.chunk_analyses = at.chunk_analyses
       /\ \/ at'.pc = "submit" /\ at'.i = at.i + 1
          \/ at'.pc = "submit" /\ at'.i = at.i /\ at.attempt = 1 /\ at'.attempt = 2
          \/ at.i = Len(at.chunks) /\ at'.pc \in {"combine", "raised"}
  /\ (at.pc = "wait" /\ ac.pc = "returned" /\ at' # at) =>
       at'.chunk_analyses = Append(at.chunk_analyses, at.i)
  /\ at.pc \in {"combine", "raised"} => at' = at

====
